---- MODULE Spec2Model ----
(***************************************************************************)
(* A model of the agent compute-trading simulator: resource vectors and    *)
(* the resource pool (agents/resource.py), protocol messages               *)
(* (agents/protocol.py), the negotiation strategies (agents/strategies.py, *)
(* experiments/exp3_trust.py), the agent (agents/agent.py) and the round   *)
(* based simulator (agents/simulator.py).                                  *)
(*                                                                         *)
(* Numbers.  The program computes prices, budgets and reputation scores in *)
(* floating point.  The model computes them as exact rationals <<n, d>>    *)
(* in lowest terms (d > 0); <<1, 0>> stands for float("inf").  Resource    *)
(* quantities are drawn from integers, except in SpecRes, which models     *)
(* the rounding of float arithmetic on Resource.                           *)
(*                                                                         *)
(* None.  A missing reply (None) is the record NoMsg, a missing resource   *)
(* (None) is the empty tuple, a missing reply_to (None) is 0 (message ids  *)
(* start at 1).                                                            *)
(***************************************************************************)
EXTENDS Integers, Sequences, FiniteSets, TLC

(***************************************************************************)
(* Exact rational arithmetic                                               *)
(***************************************************************************)
RECURSIVE Gcd(_, _)
Gcd(a, b) == IF b = 0 THEN a ELSE Gcd(b, a % b)

IAbs(n) == IF n < 0 THEN -n ELSE n

Lcm(a, b) == (a \div Gcd(a, b)) * b

R(n, d) == LET g == Gcd(IAbs(n), d) IN <<n \div g, d \div g>>

Inf == <<1, 0>>

IsInf(x) == x[2] = 0

RAdd(x, y) ==
    IF IsInf(x) \/ IsInf(y) THEN Inf
    ELSE LET l == Lcm(x[2], y[2])
         IN R(x[1] * (l \div x[2]) + y[1] * (l \div y[2]), l)

RNeg(x) == <<-x[1], x[2]>>

RSub(x, y) == RAdd(x, RNeg(y))

RMul(x, y) ==
    IF IsInf(x) \/ IsInf(y) THEN Inf
    ELSE LET g1 == Gcd(IAbs(x[1]), y[2])
             g2 == Gcd(IAbs(y[1]), x[2])
         IN <<(x[1] \div g1) * (y[1] \div g2), (x[2] \div g2) * (y[2] \div g1)>>

\* x / y for y > 0
RDiv(x, y) == IF IsInf(x) THEN Inf ELSE RMul(x, <<y[2], y[1]>>)

RLe(x, y) ==
    IF IsInf(y) THEN TRUE
    ELSE IF IsInf(x) THEN FALSE
    ELSE LET l == Lcm(x[2], y[2])
         IN x[1] * (l \div x[2]) <= y[1] * (l \div y[2])

RLt(x, y) == ~RLe(y, x)

RGe(x, y) == RLe(y, x)

RMin(x, y) == IF RLe(x, y) THEN x ELSE y

RMax(x, y) == IF RLe(x, y) THEN y ELSE x

RAbs(x) == <<IAbs(x[1]), x[2]>>

RInt(i) == <<i, 1>>

RZero == <<0, 1>>

ROne == <<1, 1>>

RHalf(x) == RMul(x, <<1, 2>>)

(***************************************************************************)
(* agents/resource.py: Resource, a vector <<gpu_hours, cpu_hours,          *)
(* memory_gb_hours>>                                                       *)
(***************************************************************************)
Resource0 == <<0, 0, 0>>

Resource_add(a, b) == <<a[1] + b[1], a[2] + b[2], a[3] + b[3]>>

Resource_sub(a, b) == <<a[1] - b[1], a[2] - b[2], a[3] - b[3]>>

total_units(r) == r[1] + r[2] + r[3]

\* a variant of can_afford that compares the totals, not each dimension
can_afford_total(self, cost) == total_units(self) >= total_units(cost)

can_afford(self, cost) ==
    /\ self[1] >= cost[1]
    /\ self[2] >= cost[2]
    /\ self[3] >= cost[3]

EmptyDict == [k \in {} |-> 0]

\* dict.get(key, default)
Get(d, k, default) == IF k \in DOMAIN d THEN d[k] ELSE default

to_dict(r) ==
    [gpu_hours |-> r[1], cpu_hours |-> r[2], memory_gb_hours |-> r[3]]

from_dict(d) ==
    <<Get(d, "gpu_hours", 0), Get(d, "cpu_hours", 0), Get(d, "memory_gb_hours", 0)>>

(***************************************************************************)
(* agents/protocol.py: Message                                             *)
(***************************************************************************)
NoMsg == [msg_type |-> "none"]

IsNone(m) == m.msg_type = "none"

Message(type, sender, receiver, payload, id) ==
    [msg_type |-> type, sender_id |-> sender, receiver_id |-> receiver,
     payload |-> payload, msg_id |-> id, reply_to |-> 0]

\* a variant of reply that keeps the direction of the message it answers
reply_same_direction(msg, type, payload, id) ==
    [msg_type |-> type, sender_id |-> msg.sender_id,
     receiver_id |-> msg.receiver_id, payload |-> payload, msg_id |-> id,
     reply_to |-> msg.msg_id]

\* protocol.py lines 45-53: Message.reply
reply(msg, type, payload, id) ==
    [msg_type |-> type, sender_id |-> msg.receiver_id,
     receiver_id |-> msg.sender_id, payload |-> payload, msg_id |-> id,
     reply_to |-> msg.msg_id]

(***************************************************************************)
(* agents/strategies.py, experiments/exp3_trust.py: the strategies.        *)
(* A strategy instance is the record                                       *)
(*   [kind, rounds_waited, price_belief, history, known_providers,         *)
(*    known_seekers, cheat_probability, accepted_count, cheated_count,     *)
(*    wrapped, trust_threshold]                                            *)
(* wrapped says that the instance sits inside a ReputationAwareStrategy    *)
(* with that trust_threshold.                                              *)
(* holding the mutable fields of the six dataclasses; kind "none" is an    *)
(* agent built with strategy=None.  initiate returns the opening Message;  *)
(* decide returns [reply |-> Message or NoMsg, strategy |-> the instance   *)
(* after the call].  id is the msg_id of the message being built.          *)
(***************************************************************************)
greed_factor == R(7, 10)

\* a variant of the tolerance that is far too wide
fairness_tolerance_wide == R(1, 2)

fairness_tolerance == R(3, 20)

patience == R(4, 5)

\* a variant of the factor of line 221
wait_growth_steep == R(1, 10)

\* PatientStrategy.decide, line 221: target * (1 + self.rounds_waited * 0.05)
wait_growth == R(1, 20)

learning_rate == R(1, 5)

commission_rate == R(1, 10)

price_belief0 == ROne

\* ReputationAwareStrategy.__init__: trust_threshold = 0.3
trust_threshold0 == R(3, 10)

\* a variant of the factor of line 320
rejection_decay_steep == R(9, 10)

\* AdaptiveStrategy.decide, line 320: self.price_belief *= 0.95
rejection_decay == R(19, 20)

NewStrategy(kind) ==
    [kind |-> kind, rounds_waited |-> 0, price_belief |-> price_belief0,
     history |-> <<>>, known_providers |-> <<>>, known_seekers |-> <<>>,
     cheat_probability |-> ROne, accepted_count |-> 0, cheated_count |-> 0,
     wrapped |-> FALSE, trust_threshold |-> trust_threshold0]

price_per_unit(resource) == RInt(total_units(resource))

Out(m, st) == [reply |-> m, strategy |-> st]

\* a variant of the opening payload that leaves the urgency out
RequestPayload_bare(need, price, urgency) ==
    [resource |-> to_dict(need), max_price |-> price]

\* the payload of an opening REQUEST (e.g. strategies.py lines 41-45)
RequestPayload(need, price, urgency) ==
    [resource |-> to_dict(need), max_price |-> price, urgency |-> urgency]

DealPayload(resource, price) ==
    [resource |-> to_dict(resource), price |-> price]

\* a variant of the REJECT payload that files the code under another key
Reason_detail(code) == [detail |-> code]

Reason(code) == [reason |-> code]

\* ---- GreedyStrategy ----
GreedyStrategy_initiate(agent, target_id, need, id) ==
    LET price == RMul(price_per_unit(need), greed_factor)
    IN Message("REQUEST", agent.agent_id, target_id,
               RequestPayload(need, price, agent.urgency), id)

GreedyStrategy_decide(agent, msg, id) ==
    LET st == agent.strategy IN
    IF msg.msg_type = "REQUEST" THEN
        LET requested == from_dict(msg.payload["resource"])
            their_max == Get(msg.payload, "max_price", RZero)
            our_price == RMul(price_per_unit(requested),
                              RAdd(ROne, RSub(ROne, greed_factor)))
        IN IF ~can_afford(agent.resources, requested)
           THEN Out(reply(msg, "REJECT", Reason("insufficient_resources"), id), st)
           ELSE IF RGe(their_max, our_price)
           THEN Out(reply(msg, "ACCEPT", DealPayload(requested, our_price), id), st)
           ELSE Out(reply(msg, "COUNTER", DealPayload(requested, our_price), id), st)
    ELSE IF msg.msg_type \in {"OFFER", "COUNTER"} THEN
        LET price == Get(msg.payload, "price", Inf)
            resource == from_dict(msg.payload["resource"])
            acceptable == RMul(price_per_unit(resource), greed_factor)
        IN IF RLe(price, acceptable) /\ RGe(agent.budget, price)
           THEN Out(reply(msg, "ACCEPT", DealPayload(resource, price), id), st)
           ELSE IF RLe(price, agent.budget)
           THEN Out(reply(msg, "COUNTER",
                          DealPayload(resource, RHalf(RAdd(price, acceptable))), id), st)
           ELSE Out(reply(msg, "REJECT", Reason("too_expensive"), id), st)
    ELSE Out(NoMsg, st)

\* ---- FairStrategy ----
FairStrategy_initiate(agent, target_id, need, id) ==
    LET fair_price == price_per_unit(need)
    IN Message("REQUEST", agent.agent_id, target_id,
               RequestPayload(need, RMul(fair_price, RAdd(ROne, fairness_tolerance)),
                              agent.urgency), id)

FairStrategy_decide(agent, msg, id) ==
    LET st == agent.strategy IN
    IF msg.msg_type = "REQUEST" THEN
        LET requested == from_dict(msg.payload["resource"])
            fair_price == price_per_unit(requested)
            their_max == Get(msg.payload, "max_price", RZero)
            offer_price == fair_price
        IN IF ~can_afford(agent.resources, requested)
           THEN Out(reply(msg, "REJECT", Reason("insufficient_resources"), id), st)
           ELSE IF RGe(their_max, RMul(offer_price, RSub(ROne, fairness_tolerance)))
           THEN Out(reply(msg, "ACCEPT",
                          DealPayload(requested, RMin(offer_price, their_max)), id), st)
           ELSE Out(reply(msg, "COUNTER", DealPayload(requested, offer_price), id), st)
    ELSE IF msg.msg_type \in {"OFFER", "COUNTER"} THEN
        LET price == Get(msg.payload, "price", Inf)
            resource == from_dict(msg.payload["resource"])
            fair_price == price_per_unit(resource)
            within == RLe(RDiv(RAbs(RSub(price, fair_price)),
                               RMax(fair_price, R(1, 100))), fairness_tolerance)
            split_price == RHalf(RAdd(price, fair_price))
        IN IF within /\ RGe(agent.budget, price)
           THEN Out(reply(msg, "ACCEPT", DealPayload(resource, price), id), st)
           ELSE IF RGe(agent.budget, split_price)
           THEN Out(reply(msg, "COUNTER", DealPayload(resource, split_price), id), st)
           ELSE Out(reply(msg, "REJECT", Reason("cannot_afford"), id), st)
    ELSE Out(NoMsg, st)

\* ---- PatientStrategy ----
PatientStrategy_initiate(agent, target_id, need, id) ==
    LET discount == RMul(patience, R(2, 5))
        price == RMul(price_per_unit(need), RSub(ROne, discount))
    IN Message("REQUEST", agent.agent_id, target_id,
               RequestPayload(need, price, agent.urgency), id)

PatientStrategy_decide(agent, msg, id) ==
    LET st == agent.strategy IN
    IF msg.msg_type = "REQUEST" THEN
        LET requested == from_dict(msg.payload["resource"])
            premium == RAdd(ROne, RMul(patience, R(3, 10)))
            our_price == RMul(price_per_unit(requested), premium)
            their_max == Get(msg.payload, "max_price", RZero)
        IN IF ~can_afford(agent.resources, requested)
           THEN Out(reply(msg, "REJECT", Reason("insufficient_resources"), id), st)
           ELSE IF RGe(their_max, our_price)
           THEN Out(reply(msg, "ACCEPT", DealPayload(requested, our_price), id), st)
           ELSE Out(reply(msg, "COUNTER", DealPayload(requested, our_price), id), st)
    ELSE IF msg.msg_type \in {"OFFER", "COUNTER"} THEN
        LET price == Get(msg.payload, "price", Inf)
            resource == from_dict(msg.payload["resource"])
            target == RMul(price_per_unit(resource),
                           RSub(ROne, RMul(patience, R(3, 10))))
            waited == st.rounds_waited + 1
            effective_target == RMul(target, RAdd(ROne, RMul(RInt(waited), wait_growth)))
        IN IF RLe(price, effective_target) /\ RGe(agent.budget, price)
           THEN Out(reply(msg, "ACCEPT", DealPayload(resource, price), id),
                    [st EXCEPT !.rounds_waited = 0])
           ELSE Out(reply(msg, "REJECT", Reason("waiting_for_better"), id),
                    [st EXCEPT !.rounds_waited = waited])
    ELSE Out(NoMsg, st)

\* ---- AdaptiveStrategy ----
update_belief(st, actual_price, units) ==
    IF units > 0
    THEN LET per_unit == RDiv(actual_price, RInt(units))
         IN [st EXCEPT !.history = Append(@, per_unit),
                       !.price_belief =
                           RAdd(@, RMul(learning_rate, RSub(per_unit, @)))]
    ELSE st

AdaptiveStrategy_initiate(agent, target_id, need, id) ==
    LET price == RMul(RInt(total_units(need)), agent.strategy.price_belief)
    IN Message("REQUEST", agent.agent_id, target_id,
               RequestPayload(need, RMul(price, R(11, 10)), agent.urgency), id)

AdaptiveStrategy_decide(agent, msg, id) ==
    LET st == agent.strategy IN
    IF msg.msg_type = "REQUEST" THEN
        LET requested == from_dict(msg.payload["resource"])
            our_price == RMul(RInt(total_units(requested)), st.price_belief)
            their_max == Get(msg.payload, "max_price", RZero)
            deal_price == RHalf(RAdd(our_price, their_max))
        IN IF ~can_afford(agent.resources, requested)
           THEN Out(reply(msg, "REJECT", Reason("insufficient_resources"), id), st)
           ELSE IF RGe(their_max, our_price)
           THEN Out(reply(msg, "ACCEPT", DealPayload(requested, deal_price), id),
                    update_belief(st, deal_price, total_units(requested)))
           ELSE Out(reply(msg, "COUNTER", DealPayload(requested, our_price), id), st)
    ELSE IF msg.msg_type \in {"OFFER", "COUNTER"} THEN
        LET price == Get(msg.payload, "price", Inf)
            resource == from_dict(msg.payload["resource"])
            expected == RMul(RInt(total_units(resource)), st.price_belief)
            counter_price == expected
        IN IF RLe(price, RMul(expected, R(23, 20))) /\ RGe(agent.budget, price)
           THEN Out(reply(msg, "ACCEPT", DealPayload(resource, price), id),
                    update_belief(st, price, total_units(resource)))
           ELSE IF RGe(agent.budget, counter_price)
           THEN Out(reply(msg, "COUNTER", DealPayload(resource, counter_price), id), st)
           ELSE Out(reply(msg, "REJECT", Reason("too_expensive"), id), st)
    ELSE IF msg.msg_type = "ACCEPT" THEN
        LET resource == from_dict(Get(msg.payload, "resource", EmptyDict))
            price == Get(msg.payload, "price", RZero)
        IN Out(NoMsg, update_belief(st, price, total_units(resource)))
    ELSE IF msg.msg_type = "REJECT" THEN
        Out(NoMsg, [st EXCEPT !.price_belief = RMul(@, rejection_decay)])
    ELSE Out(NoMsg, st)

\* ---- BrokerStrategy ----
InList(x, list) == \E i \in 1..Len(list) : list[i] = x

Track(list, x) == IF InList(x, list) THEN list ELSE Append(list, x)

\* a variant of the Broker's opening that asks for the need as Fair does
BrokerStrategy_initiate_request(agent, target_id, need, id) ==
    FairStrategy_initiate(agent, target_id, need, id)

\* strategies.py lines 342-349
BrokerStrategy_initiate(agent, target_id, need, id) ==
    Message("QUERY_REPUTATION", agent.agent_id, target_id,
            [query |-> "available_resources"], id)

BrokerStrategy_decide(agent, msg, id) ==
    LET st == agent.strategy IN
    IF msg.msg_type = "REQUEST" THEN
        LET requested == from_dict(msg.payload["resource"])
            their_max == Get(msg.payload, "max_price", RZero)
            price == RMul(price_per_unit(requested), RAdd(ROne, commission_rate))
        IN IF can_afford(agent.resources, requested)
           THEN IF RGe(their_max, price)
                THEN Out(reply(msg, "ACCEPT",
                               [resource |-> to_dict(requested), price |-> price,
                                broker |-> agent.agent_id], id), st)
                ELSE Out(reply(msg, "COUNTER", DealPayload(requested, price), id), st)
           ELSE Out(reply(msg, "REJECT", Reason("no_resources_but_tracking"), id),
                    [st EXCEPT !.known_seekers = Track(@, msg.sender_id)])
    ELSE IF msg.msg_type \in {"OFFER", "COUNTER"} THEN
        LET price == Get(msg.payload, "price", Inf)
            resource == from_dict(msg.payload["resource"])
            fair == price_per_unit(resource)
        IN IF RLe(price, fair) /\ RGe(agent.budget, price)
           THEN Out(reply(msg, "ACCEPT", DealPayload(resource, price), id),
                    [st EXCEPT !.known_providers = Track(@, msg.sender_id)])
           ELSE Out(reply(msg, "REJECT", Reason("not_profitable"), id), st)
    ELSE Out(NoMsg, st)

\* ---- CheaterStrategy (experiments/exp3_trust.py) ----
CheaterStrategy_initiate(agent, target_id, need, id) ==
    LET price == RInt(total_units(need))
    IN Message("REQUEST", agent.agent_id, target_id,
               RequestPayload(need, RMul(price, R(6, 5)), R(9, 10)), id)

CheaterStrategy_decide(agent, msg, id) ==
    LET st == agent.strategy IN
    IF msg.msg_type = "REQUEST" THEN
        LET requested == from_dict(msg.payload["resource"])
            their_max == Get(msg.payload, "max_price", RZero)
            price == RInt(total_units(requested))
        IN IF RGe(their_max, RMul(price, R(4, 5)))
           THEN Out(reply(msg, "ACCEPT",
                          DealPayload(requested, RMin(price, their_max)), id), st)
           ELSE Out(reply(msg, "REJECT", Reason("not_enough"), id), st)
    ELSE IF msg.msg_type \in {"OFFER", "COUNTER"} THEN
        LET price == Get(msg.payload, "price", Inf)
            resource == from_dict(msg.payload["resource"])
        IN IF RLe(price, RMul(RInt(total_units(resource)), R(13, 10)))
           THEN Out(reply(msg, "ACCEPT", DealPayload(resource, price), id), st)
           ELSE Out(reply(msg, "REJECT", Reason("too_much"), id), st)
    ELSE Out(NoMsg, st)

\* ---- dispatch on the strategy instance bound to the agent ----
strategy_initiate(agent, target_id, need, id) ==
    CASE agent.strategy.kind = "greedy" -> GreedyStrategy_initiate(agent, target_id, need, id)
      [] agent.strategy.kind = "fair" -> FairStrategy_initiate(agent, target_id, need, id)
      [] agent.strategy.kind = "patient" -> PatientStrategy_initiate(agent, target_id, need, id)
      [] agent.strategy.kind = "adaptive" -> AdaptiveStrategy_initiate(agent, target_id, need, id)
      [] agent.strategy.kind = "broker" -> BrokerStrategy_initiate(agent, target_id, need, id)
      [] agent.strategy.kind = "cheater" -> CheaterStrategy_initiate(agent, target_id, need, id)

\* the decide of the strategy itself (of the wrapped one, under a wrapper)
inner_decide(agent, msg, id) ==
    CASE agent.strategy.kind = "greedy" -> GreedyStrategy_decide(agent, msg, id)
      [] agent.strategy.kind = "fair" -> FairStrategy_decide(agent, msg, id)
      [] agent.strategy.kind = "patient" -> PatientStrategy_decide(agent, msg, id)
      [] agent.strategy.kind = "adaptive" -> AdaptiveStrategy_decide(agent, msg, id)
      [] agent.strategy.kind = "broker" -> BrokerStrategy_decide(agent, msg, id)
      [] agent.strategy.kind = "cheater" -> CheaterStrategy_decide(agent, msg, id)

(***************************************************************************)
(* agents/agent.py: Agent, the record                                      *)
(*   [agent_id, resources, budget, strategy, urgency, pending_needs,       *)
(*    deals, reputation_table, message_log]                                *)
(* and Deal, the record [partner_id, resource, price, round_num,           *)
(* fulfilled].  Each operation returns the agent after the call.           *)
(***************************************************************************)
Put(d, k, v) == [x \in (DOMAIN d) \cup {k} |-> IF x = k THEN v ELSE d[x]]

NewAgent(id, resources, budget, kind) ==
    [agent_id |-> id, resources |-> resources, budget |-> budget,
     strategy |-> NewStrategy(kind), urgency |-> R(1, 2),
     pending_needs |-> Resource0, deals |-> <<>>,
     reputation_table |-> EmptyDict, message_log |-> <<>>]

Deal(partner_id, resource, price, round, fulfilled) ==
    [partner_id |-> partner_id, resource |-> resource, price |-> price,
     round_num |-> round, fulfilled |-> fulfilled]

reputation_of(agent, other_id) == Get(agent.reputation_table, other_id, R(1, 2))

\* ---- ReputationAwareStrategy, experiments/exp3_trust.py lines 169-190 ----
\* initiate hands over to the wrapped strategy (lines 179-180), which is what
\* strategy_initiate does; decide looks at the sender's reputation first
ReputationAwareStrategy_decide(agent, msg, id) ==
    LET rep == reputation_of(agent, msg.sender_id)
    IN IF RLt(rep, agent.strategy.trust_threshold)
       THEN Out(reply(msg, "REJECT",
                      [reason |-> "low_reputation", your_reputation |-> rep], id),
                agent.strategy)
       ELSE inner_decide(agent, msg, id)

strategy_decide(agent, msg, id) ==
    IF agent.strategy.wrapped
    THEN ReputationAwareStrategy_decide(agent, msg, id)
    ELSE inner_decide(agent, msg, id)

\* a variant of update_reputation that stores the sum as it is
update_reputation_unclamped(agent, other_id, delta) ==
    [agent EXCEPT !.reputation_table =
        Put(@, other_id, RAdd(reputation_of(agent, other_id), delta))]

update_reputation(agent, other_id, delta) ==
    LET current == reputation_of(agent, other_id)
    IN [agent EXCEPT !.reputation_table =
            Put(@, other_id, RMax(RZero, RMin(ROne, RAdd(current, delta))))]

\* a variant of record_deal whose penalty is 0.03
record_deal_gentle(agent, deal) ==
    LET delta == IF deal.fulfilled THEN R(1, 10) ELSE R(-3, 100)
    IN update_reputation([agent EXCEPT !.deals = Append(@, deal)],
                         deal.partner_id, delta)

\* a variant of record_deal with the two deltas swapped
record_deal_swapped(agent, deal) ==
    LET delta == IF deal.fulfilled THEN R(-3, 10) ELSE R(1, 10)
    IN update_reputation([agent EXCEPT !.deals = Append(@, deal)],
                         deal.partner_id, delta)

\* a variant of record_deal that clears the pending need of a fulfilled deal
record_deal_clearing_need(agent, deal) ==
    LET delta == IF deal.fulfilled THEN R(1, 10) ELSE R(-3, 10)
    IN update_reputation(
           [agent EXCEPT !.deals = Append(@, deal),
                         !.pending_needs = IF deal.fulfilled THEN Resource0 ELSE @],
           deal.partner_id, delta)

record_deal(agent, deal) ==
    LET delta == IF deal.fulfilled THEN R(1, 10) ELSE R(-3, 10)
    IN update_reputation([agent EXCEPT !.deals = Append(@, deal)],
                         deal.partner_id, delta)

\* a variant of receive that marks the sender down when the answer is REJECT
receive_penalising(agent, msg, id) ==
    LET logged == [agent EXCEPT !.message_log = Append(@, msg)]
    IN IF agent.strategy.kind = "none"
       THEN [agent |-> logged, reply |-> NoMsg]
       ELSE LET out == strategy_decide(logged, msg, id)
                after == [logged EXCEPT !.strategy = out.strategy]
            IN [agent |-> IF ~IsNone(out.reply) /\ out.reply.msg_type = "REJECT"
                          THEN update_reputation(after, msg.sender_id, R(-1, 10))
                          ELSE after,
                reply |-> out.reply]

\* a variant of receive that also logs the agent's own reply
receive_logging_reply(agent, msg, id) ==
    LET logged == [agent EXCEPT !.message_log = Append(@, msg)]
    IN IF agent.strategy.kind = "none"
       THEN [agent |-> logged, reply |-> NoMsg]
       ELSE LET out == strategy_decide(logged, msg, id)
            IN [agent |-> [logged EXCEPT
                               !.strategy = out.strategy,
                               !.message_log = IF IsNone(out.reply) THEN @
                                               ELSE Append(@, out.reply)],
                reply |-> out.reply]

\* returns [agent |-> the agent after the call, reply |-> Message or NoMsg]
receive(agent, msg, id) ==
    LET logged == [agent EXCEPT !.message_log = Append(@, msg)]
    IN IF agent.strategy.kind = "none"
       THEN [agent |-> logged, reply |-> NoMsg]
       ELSE LET out == strategy_decide(logged, msg, id)
            IN [agent |-> [logged EXCEPT !.strategy = out.strategy],
                reply |-> out.reply]

\* a variant of initiate_negotiation that opens with a bare REQUEST when
\* there is no strategy
initiate_negotiation_lenient(agent, target_id, need, id) ==
    IF agent.strategy.kind = "none"
    THEN [raised |-> FALSE,
          msg |-> Message("REQUEST", agent.agent_id, target_id,
                          RequestPayload(need, RZero, agent.urgency), id)]
    ELSE [raised |-> FALSE, msg |-> strategy_initiate(agent, target_id, need, id)]

\* returns [raised |-> TRUE] for the RuntimeError, else the opening message
initiate_negotiation(agent, target_id, need, id) ==
    IF agent.strategy.kind = "none"
    THEN [raised |-> TRUE, msg |-> NoMsg]
    ELSE [raised |-> FALSE, msg |-> strategy_initiate(agent, target_id, need, id)]

net_worth(agent) == RAdd(agent.budget, RInt(total_units(agent.resources)))

(***************************************************************************)
(* agents/simulator.py: Simulator.                                         *)
(*                                                                         *)
(* State of the program: agents (Simulator.agents), max_turns, round_num,  *)
(* metrics, full_log, and next_id (the supply of fresh msg_id values).     *)
(* Position inside run_round: pc, with the locals of run_round (mode,      *)
(* queue, sellers, round_results), of _negotiate (neg) and the result      *)
(* handed from _negotiate to _execute_deal (result).                       *)
(*   pc = "idle"    no round is running                                    *)
(*   pc = "loop"    head of the for loop over pairings / buyers            *)
(*   pc = "seller"  head of the while loop of _negotiate                   *)
(*   pc = "buyer"   the seller countered, buyer.receive is next            *)
(*   pc = "settle"  _negotiate returned, _execute_deal is next             *)
(*   pc = "error"   initiate_negotiation raised RuntimeError               *)
(* History variables, read only by the properties: pre_agents (agents as   *)
(* they were when the last step began) and last_op (the last step taken).  *)
(***************************************************************************)
\* bounds of the model
MaxRounds == 2

MaxTurns == 3

VARIABLES agents, max_turns, round_num, metrics, full_log, next_id,
          pc, mode, queue, sellers, round_results, neg, result,
          pre_agents, last_op, pairings_arg, run_call,
          total, allocated, pool_ret,
          cheater_ids, default_log, agreed_with_cheater,
          heap, origin

sim_vars == <<agents, max_turns, round_num, metrics, full_log, next_id,
              pc, mode, queue, sellers, round_results, neg, result,
              pre_agents, last_op, pairings_arg, run_call>>

pool_vars == <<total, allocated, pool_ret>>

trust_vars == <<cheater_ids, default_log, agreed_with_cheater>>

\* heap: the Resource objects and dicts of a session on Resource alone, in
\* order of creation; origin: for each of them the call that made it
res_vars == <<heap, origin>>

vars == <<sim_vars, pool_vars, trust_vars, res_vars>>

NoRes == heap = <<>> /\ origin = <<>>

\* the agents a simulation may be built from, in construction order
AgentOrder == <<"a1", "a2", "a3">>

AgentIds == {AgentOrder[i] : i \in 1..Len(AgentOrder)}

\* self.agents.values(): the agents of this simulation, in insertion order
agent_list ==
    LET Present(a) == a \in DOMAIN agents
    IN SelectSeq(AgentOrder, Present)

None == <<>>

NoNeg == [buyer |-> "", seller |-> "", need |-> Resource0, messages |-> <<>>,
          current_msg |-> NoMsg, turns |-> 0]

NoResult == [buyer_id |-> "", seller_id |-> "", resource |-> None,
             price |-> RZero, agreed |-> FALSE, rounds |-> 0, messages |-> <<>>]

NegotiationResult(buyer_id, seller_id, resource, price, agreed, rounds, messages) ==
    [buyer_id |-> buyer_id, seller_id |-> seller_id, resource |-> resource,
     price |-> price, agreed |-> agreed, rounds |-> rounds, messages |-> messages]

\* an optional argument: given = FALSE is None
\* run_call: the call of Simulator.run in progress, if any: its arguments
\* (rounds, needs), the round number at the call (start), the list
\* all_metrics and where the call stands (status)
NoRun == [status |-> "none", rounds |-> 0, needs |-> [given |-> FALSE, value |-> <<>>],
          start |-> 0, all_metrics |-> <<>>]

Absent == [given |-> FALSE, value |-> <<>>]

Given(v) == [given |-> TRUE, value |-> v]

\* Python truthiness of an optional dict / list argument
Truthy(arg) == arg.given /\ DOMAIN arg.value # {}

RECURSIVE SumInt(_, _, _)
SumInt(seq, F(_), i) == IF i > Len(seq) THEN 0 ELSE F(seq[i]) + SumInt(seq, F, i + 1)

RECURSIVE SumRat(_, _, _)
SumRat(seq, F(_), i) ==
    IF i > Len(seq) THEN RZero ELSE RAdd(F(seq[i]), SumRat(seq, F, i + 1))

(***************************************************************************)
(* _negotiate, lines 72-157                                                *)
(***************************************************************************)
\* lines 74-81: buyer opens
negotiate_open(buyer_id, seller_id) ==
    LET buyer == agents[buyer_id]
        need == buyer.pending_needs
        opened == initiate_negotiation(buyer, seller_id, need, next_id)
    IN /\ pre_agents' = agents
       /\ IF opened.raised
          THEN /\ pc' = "error"
               /\ last_op' = "raise"
               /\ UNCHANGED <<agents, next_id, neg>>
          ELSE /\ pc' = "seller"
               /\ last_op' = "open"
               /\ neg' = [buyer |-> buyer_id, seller |-> seller_id, need |-> need,
                          messages |-> <<opened.msg>>, current_msg |-> opened.msg,
                          turns |-> 0]
               /\ next_id' = next_id + 1
               /\ UNCHANGED agents
       /\ UNCHANGED <<max_turns, round_num, metrics, full_log, mode, sellers,
                      round_results, result, pool_vars,
                   trust_vars, pairings_arg, run_call, res_vars>>

\* a variant of the terminal result that reports every closing reply as a deal
terminal_result_agreeing(response, messages) ==
    NegotiationResult(neg.buyer, neg.seller,
        from_dict(Get(response.payload, "resource", to_dict(neg.need))),
        Get(response.payload, "price", RZero),
        TRUE, neg.turns + 1, messages)

\* the result of lines 90-113 / 121-143 for a reply of type ACCEPT or REJECT
terminal_result(response, messages) ==
    IF response.msg_type = "ACCEPT"
    THEN NegotiationResult(neg.buyer, neg.seller,
             from_dict(Get(response.payload, "resource", to_dict(neg.need))),
             Get(response.payload, "price", RZero),
             TRUE, neg.turns + 1, messages)
    ELSE NegotiationResult(neg.buyer, neg.seller, None, RZero, FALSE,
                           neg.turns + 1, messages)

\* lines 148-157: the loop was left by break or by its condition
timeout_result(messages) ==
    NegotiationResult(neg.buyer, neg.seller, None, RZero, FALSE, neg.turns, messages)

\* a variant of the line 83 condition that lets one more pass through
loop_condition_inclusive == neg.turns <= max_turns

\* line 83: while turns < self.max_turns
loop_condition == neg.turns < max_turns

\* lines 83-113: one pass of the loop head and the seller's half of the body
SellerTurn ==
    /\ pc = "seller"
    /\ loop_condition
    /\ LET got == receive(agents[neg.seller], neg.current_msg, next_id)
           response == got.reply
           messages == Append(neg.messages, response)
       IN /\ agents' = [agents EXCEPT ![neg.seller] = got.agent]
          /\ IF IsNone(response)
             THEN /\ result' = timeout_result(neg.messages)
                  /\ pc' = "settle"
                  /\ UNCHANGED <<neg, next_id>>
             ELSE /\ next_id' = next_id + 1
                  /\ neg' = [neg EXCEPT !.messages = messages]
                  /\ IF response.msg_type \in {"ACCEPT", "REJECT"}
                     THEN /\ result' = terminal_result(response, messages)
                          /\ pc' = "settle"
                     ELSE /\ pc' = "buyer"
                          /\ UNCHANGED result
    /\ pre_agents' = agents
    /\ last_op' = "seller"
    /\ UNCHANGED <<max_turns, round_num, metrics, full_log, mode, queue, sellers,
                   round_results, pool_vars,
                   trust_vars, pairings_arg, run_call, res_vars>>

\* lines 115-146: the buyer's half of the loop body
BuyerTurn ==
    /\ pc = "buyer"
    /\ LET response == neg.messages[Len(neg.messages)]
           got == receive(agents[neg.buyer], response, next_id)
           buyer_response == got.reply
           messages == Append(neg.messages, buyer_response)
       IN /\ agents' = [agents EXCEPT ![neg.buyer] = got.agent]
          /\ IF IsNone(buyer_response)
             THEN /\ result' = timeout_result(neg.messages)
                  /\ pc' = "settle"
                  /\ UNCHANGED <<neg, next_id>>
             ELSE /\ next_id' = next_id + 1
                  /\ IF buyer_response.msg_type \in {"ACCEPT", "REJECT"}
                     THEN /\ result' = terminal_result(buyer_response, messages)
                          /\ neg' = [neg EXCEPT !.messages = messages]
                          /\ pc' = "settle"
                     ELSE /\ neg' = [neg EXCEPT !.messages = messages,
                                                !.current_msg = buyer_response,
                                                !.turns = @ + 1]
                          /\ pc' = "seller"
                          /\ UNCHANGED result
    /\ pre_agents' = agents
    /\ last_op' = "buyer"
    /\ UNCHANGED <<max_turns, round_num, metrics, full_log, mode, queue, sellers,
                   round_results, pool_vars,
                   trust_vars, pairings_arg, run_call, res_vars>>

\* lines 83, 148-157: the loop condition fails
Timeout ==
    /\ pc = "seller"
    /\ ~loop_condition
    /\ result' = timeout_result(neg.messages)
    /\ pc' = "settle"
    /\ pre_agents' = agents
    /\ last_op' = "timeout"
    /\ UNCHANGED <<agents, max_turns, round_num, metrics, full_log, next_id, mode,
                   queue, sellers, round_results, neg, pool_vars,
                   trust_vars, pairings_arg, run_call, res_vars>>

(***************************************************************************)
(* _execute_deal, lines 159-198: returns [agents, result] after the call   *)
(***************************************************************************)
\* a variant of the line 168 check that looks at the buyer's budget only
settlement_check_budget_only(ags, res) ==
    RGe(ags[res.buyer_id].budget, res.price)

\* line 168
settlement_check(ags, res) ==
    /\ can_afford(ags[res.seller_id].resources, res.resource)
    /\ RGe(ags[res.buyer_id].budget, res.price)

\* a variant of lines 169-172 that never credits the seller
transfer_unpaid(ags, res) ==
    LET b == res.buyer_id
        s == res.seller_id
        a1 == [ags EXCEPT ![s].resources = Resource_sub(@, res.resource)]
        a2 == [a1 EXCEPT ![b].resources = Resource_add(@, res.resource)]
    IN [a2 EXCEPT ![b].budget = RSub(@, res.price)]

\* lines 169-172: the four ledger updates, in order
transfer(ags, res) ==
    LET b == res.buyer_id
        s == res.seller_id
        a1 == [ags EXCEPT ![s].resources = Resource_sub(@, res.resource)]
        a2 == [a1 EXCEPT ![b].resources = Resource_add(@, res.resource)]
        a3 == [a2 EXCEPT ![b].budget = RSub(@, res.price)]
    IN [a3 EXCEPT ![s].budget = RAdd(@, res.price)]

\* a variant of lines 192-198 that still charges the buyer
mark_default_charged(ags, res, round) ==
    [ags EXCEPT ![res.buyer_id] =
        record_deal([@ EXCEPT !.budget = RSub(@, res.price)],
                    Deal(res.seller_id, res.resource, res.price, round, FALSE))]

\* a variant of lines 192-198 in which the seller records the failure too
mark_default_symmetric(ags, res, round) ==
    LET a1 == [ags EXCEPT ![res.buyer_id] =
                  record_deal(@, Deal(res.seller_id, res.resource, res.price, round, FALSE))]
    IN [a1 EXCEPT ![res.seller_id] =
           record_deal(@, Deal(res.buyer_id, res.resource, res.price, round, FALSE))]

\* a variant of lines 192-198 in which every agent but the seller learns of
\* the failure and marks the seller down
mark_default_broadcast(ags, res, round) ==
    [a \in DOMAIN ags |->
        IF a = res.buyer_id
        THEN record_deal(ags[a], Deal(res.seller_id, res.resource, res.price,
                                      round, FALSE))
        ELSE IF a = res.seller_id THEN ags[a]
        ELSE update_reputation(ags[a], res.seller_id, R(-3, 10))]

\* lines 192-198: the buyer alone records the failed deal
mark_default(ags, res, round) ==
    [ags EXCEPT ![res.buyer_id] =
        record_deal(@, Deal(res.seller_id, res.resource, res.price, round, FALSE))]

\* a variant of _execute_deal that books a refused negotiation as a default
execute_deal_booking_refusals(ags, res, round) ==
    IF ~res.agreed \/ res.resource = None
    THEN [agents |-> mark_default(ags, res, round), result |-> res]
    ELSE IF settlement_check(ags, res)
    THEN [agents |-> transfer(ags, res), result |-> res]
    ELSE [agents |-> mark_default(ags, res, round),
          result |-> [res EXCEPT !.agreed = FALSE]]

execute_deal(ags, res, round) ==
    IF ~res.agreed \/ res.resource = None
    THEN [agents |-> ags, result |-> res]
    ELSE LET b == res.buyer_id
             s == res.seller_id
         IN IF settlement_check(ags, res)
            THEN LET a4 == transfer(ags, res)
                     a5 == [a4 EXCEPT ![b] =
                               record_deal(@, Deal(s, res.resource, res.price, round, TRUE))]
                     a6 == [a5 EXCEPT ![s] =
                               record_deal(@, Deal(b, res.resource, res.price, round, TRUE))]
                 IN [agents |-> a6, result |-> res]
            ELSE [agents |-> mark_default(ags, res, round),
                  result |-> [res EXCEPT !.agreed = FALSE]]

\* run_round lines 235-236 / 245-246: settle, then keep the result
ExecuteDeal ==
    /\ pc = "settle"
    /\ LET done == execute_deal(agents, result, round_num)
       IN /\ agents' = done.agents
          /\ result' = done.result
          /\ round_results' = Append(round_results, done.result)
    /\ pc' = "loop"
    /\ pre_agents' = agents
    /\ last_op' = IF ~result.agreed \/ result.resource = None THEN "no_deal"
                  ELSE IF settlement_check(agents, result) THEN "settled"
                  ELSE "defaulted"
    /\ UNCHANGED <<max_turns, round_num, metrics, full_log, next_id, mode, queue,
                   sellers, neg, pool_vars,
                   trust_vars, pairings_arg, run_call, res_vars>>

(***************************************************************************)
(* experiments/exp3_trust.py: TrustSimulator._execute_deal, lines 103-166  *)
(* cheater_ids and default_log are the fields of TrustSimulator;           *)
(* agreed_with_cheater is a history variable counting the agreed results   *)
(* handed to _execute_deal that name a marked agent as buyer or seller.    *)
(***************************************************************************)
\* hasattr(strategy, 'cheat_probability') / hasattr(strategy, '_accepted_count')
has_cheat_fields(agent) ==
    agent.strategy.kind = "cheater" /\ ~agent.strategy.wrapped

\* a variant of lines 112-116 that looks at the seller only
find_cheater_seller_only(ids, res) ==
    IF res.seller_id \in ids THEN res.seller_id ELSE ""

\* lines 112-116: the seller if marked, else the buyer if marked, else None ("")
find_cheater(ids, res) ==
    IF res.seller_id \in ids THEN res.seller_id
    ELSE IF res.buyer_id \in ids THEN res.buyer_id
    ELSE ""

\* the values random.random() is drawn from: 0 <= u < 1
RandomDraws == {RZero, RHalf(ROne), R(99, 100)}

\* lines 123-129
default_entry(res, round, cheater_id) ==
    [round |-> round, cheater |-> cheater_id,
     victim |-> IF cheater_id = res.seller_id THEN res.buyer_id ELSE res.seller_id,
     resource |-> total_units(res.resource), price |-> res.price]

\* a variant of the cheat in which the payment a cheating seller takes is
\* not credited to it
cheat_uncredited(ags, res, round, cheater_id) ==
    LET b == res.buyer_id
        s == res.seller_id
        victim_id == IF cheater_id = s THEN b ELSE s
        a2 == IF cheater_id = s
              THEN [ags EXCEPT ![b].budget = RSub(@, res.price)]
              ELSE [[ags EXCEPT ![s].resources = Resource_sub(@, res.resource)]
                        EXCEPT ![b].resources = Resource_add(@, res.resource)]
    IN [a2 EXCEPT ![victim_id] =
           record_deal(@, Deal(cheater_id, res.resource, res.price, round, FALSE))]

\* lines 121, 131-161: the cheat; returns the agents after it
cheat(ags, res, round, cheater_id) ==
    LET b == res.buyer_id
        s == res.seller_id
        victim_id == IF cheater_id = s THEN b ELSE s
        a1 == [ags EXCEPT ![cheater_id].strategy.cheated_count = @ + 1]
        a2 == IF cheater_id = s
              THEN [[a1 EXCEPT ![b].budget = RSub(@, res.price)]
                        EXCEPT ![s].budget = RAdd(@, res.price)]
              ELSE [[a1 EXCEPT ![s].resources = Resource_sub(@, res.resource)]
                        EXCEPT ![b].resources = Resource_add(@, res.resource)]
        a3 == [a2 EXCEPT ![victim_id] =
                  record_deal(@, Deal(cheater_id, res.resource, res.price, round, FALSE))]
        a4 == [a3 EXCEPT ![cheater_id] =
                  record_deal(@, Deal(victim_id, res.resource, res.price, round, TRUE))]
    IN [a4 EXCEPT ![cheater_id].strategy.accepted_count = @ + 1]

\* lines 103-166 with the value u drawn by random.random(); returns
\* [agents, result, cheated, log]
trust_execute_deal(ags, res, round, ids, log, u) ==
    IF ~res.agreed \/ res.resource = None
    THEN [agents |-> ags, result |-> res, cheated |-> FALSE, log |-> log]
    ELSE LET cheater_id == find_cheater(ids, res)
             marked == cheater_id # "" /\ has_cheat_fields(ags[cheater_id])
         IN IF marked /\ RLt(u, ags[cheater_id].strategy.cheat_probability)
            THEN [agents |-> cheat(ags, res, round, cheater_id), result |-> res,
                  cheated |-> TRUE,
                  log |-> Append(log, default_entry(res, round, cheater_id))]
            ELSE LET counted == IF marked
                                THEN [ags EXCEPT
                                         ![cheater_id].strategy.accepted_count = @ + 1]
                                ELSE ags
                     done == execute_deal(counted, res, round)
                 IN [agents |-> done.agents, result |-> done.result,
                     cheated |-> FALSE, log |-> log]

\* run_round lines 235-236 / 245-246 on a TrustSimulator
TrustExecuteDeal ==
    /\ pc = "settle"
    /\ \E u \in RandomDraws :
           LET done == trust_execute_deal(agents, result, round_num, cheater_ids,
                                          default_log, u)
           IN /\ agents' = done.agents
              /\ result' = done.result
              /\ round_results' = Append(round_results, done.result)
              /\ default_log' = done.log
              /\ last_op' = IF done.cheated THEN "cheated"
                            ELSE IF ~result.agreed \/ result.resource = None
                            THEN "no_deal"
                            ELSE IF settlement_check(agents, result) THEN "settled"
                            ELSE "defaulted"
    /\ agreed_with_cheater' =
           IF result.agreed /\ {result.buyer_id, result.seller_id} \cap cheater_ids # {}
           THEN agreed_with_cheater + 1
           ELSE agreed_with_cheater
    /\ pc' = "loop"
    /\ pre_agents' = agents
    /\ UNCHANGED <<max_turns, round_num, metrics, full_log, next_id, mode, queue,
                   sellers, neg, pool_vars, cheater_ids, pairings_arg,
                   run_call, res_vars>>

(***************************************************************************)
(* run_round, lines 200-278                                                *)
(***************************************************************************)
\* lines 214-228: needs is an optional map id -> Resource, pairings an
\* optional list of <<buyer_id, seller_id>>; pairings_arg is a history
\* variable holding the pairings argument of the latest call
RunRound(needs, pairings) ==
    /\ pc = "idle"
    /\ round_num < MaxRounds
    /\ round_num' = round_num + 1
    /\ LET updated == IF Truthy(needs)
                      THEN [a \in DOMAIN agents |->
                               IF a \in DOMAIN needs.value
                               THEN [agents[a] EXCEPT !.pending_needs = needs.value[a]]
                               ELSE agents[a]]
                      ELSE agents
           IsBuyer(a) == total_units(updated[a].pending_needs) > 0
           IsSeller(a) == total_units(updated[a].pending_needs) = 0
           buyers == SelectSeq(agent_list, IsBuyer)
           found == SelectSeq(agent_list, IsSeller)
       IN /\ agents' = updated
          /\ sellers' = IF found = <<>> THEN agent_list ELSE found
          /\ IF Truthy(pairings)
             THEN mode' = "explicit" /\ queue' = pairings.value
             ELSE mode' = "random" /\ queue' = buyers
    /\ round_results' = <<>>
    /\ pc' = "loop"
    /\ pre_agents' = agents
    /\ last_op' = "run_round"
    /\ pairings_arg' = pairings
    /\ UNCHANGED <<max_turns, metrics, full_log, next_id, neg, result, pool_vars,
                   trust_vars, run_call, res_vars>>

\* lines 231-234: the next explicit pairing
NextPairing ==
    /\ pc = "loop"
    /\ mode = "explicit"
    /\ queue # <<>>
    /\ queue' = Tail(queue)
    /\ negotiate_open(Head(queue)[1], Head(queue)[2])

\* a variant of line 240 that keeps the buyer among the candidates
available_any(buyer_id) ==
    {sellers[i] : i \in 1..Len(sellers)}

\* lines 238-244: the next buyer picks a random seller other than itself
available(buyer_id) ==
    {sellers[i] : i \in 1..Len(sellers)} \ {buyer_id}

NextBuyer ==
    /\ pc = "loop"
    /\ mode = "random"
    /\ queue # <<>>
    /\ available(Head(queue)) # {}
    /\ queue' = Tail(queue)
    /\ \E seller_id \in available(Head(queue)) :
           negotiate_open(Head(queue), seller_id)

\* lines 241-242: no seller but the buyer itself
SkipBuyer ==
    /\ pc = "loop"
    /\ mode = "random"
    /\ queue # <<>>
    /\ available(Head(queue)) = {}
    /\ queue' = Tail(queue)
    /\ pre_agents' = agents
    /\ last_op' = "skip"
    /\ UNCHANGED <<agents, max_turns, round_num, metrics, full_log, next_id, pc,
                   mode, sellers, round_results, neg, result, pool_vars,
                   trust_vars, pairings_arg, run_call, res_vars>>

\* a variant of lines 249-250 that counts every result that carries a resource
round_metrics_with_defaults ==
    LET IsDeal(r) == r.resource # None
        deals == SelectSeq(round_results, IsDeal)
        Units(r) == total_units(r.resource)
        Price(r) == r.price
        total_volume == SumInt(deals, Units, 1)
        total_currency == SumRat(deals, Price, 1)
        avg_price == IF total_volume > 0
                     THEN RDiv(total_currency, RInt(total_volume))
                     ELSE RZero
    IN [round_num |-> round_num,
        negotiations |-> Len(round_results),
        deals_made |-> Len(deals),
        total_volume |-> total_volume,
        total_currency |-> total_currency,
        avg_price_per_unit |-> avg_price,
        agent_budgets |-> [a \in DOMAIN agents |-> agents[a].budget],
        agent_resources |-> [a \in DOMAIN agents |-> total_units(agents[a].resources)]]

\* lines 248-278
round_metrics ==
    LET IsDeal(r) == r.agreed
        deals == SelectSeq(round_results, IsDeal)
        Units(r) == total_units(r.resource)
        Price(r) == r.price
        total_volume == SumInt(deals, Units, 1)
        total_currency == SumRat(deals, Price, 1)
        avg_price == IF total_volume > 0
                     THEN RDiv(total_currency, RInt(total_volume))
                     ELSE RZero
    IN [round_num |-> round_num,
        negotiations |-> Len(round_results),
        deals_made |-> Len(deals),
        total_volume |-> total_volume,
        total_currency |-> total_currency,
        avg_price_per_unit |-> avg_price,
        agent_budgets |-> [a \in DOMAIN agents |-> agents[a].budget],
        agent_resources |-> [a \in DOMAIN agents |-> total_units(agents[a].resources)]]

log_record(m) ==
    [round |-> m.round_num, negotiations |-> m.negotiations, deals |-> m.deals_made,
     volume |-> m.total_volume, currency |-> m.total_currency,
     avg_price |-> m.avg_price_per_unit]

EndRound ==
    /\ pc = "loop"
    /\ queue = <<>>
    /\ metrics' = Append(metrics, round_metrics)
    /\ full_log' = Append(full_log, log_record(round_metrics))
    /\ pc' = "idle"
    /\ pre_agents' = agents
    /\ last_op' = "end_round"
    /\ UNCHANGED <<agents, max_turns, round_num, next_id, mode, queue, sellers,
                   round_results, neg, result, pool_vars,
                   trust_vars, pairings_arg, run_call, res_vars>>

(***************************************************************************)
(* agents/resource.py: ResourcePool                                        *)
(***************************************************************************)
\* bound of the model: how far below zero release may take one dimension
MaxDebt == 1

\* pool_ret: the last call on the pool (op, agent_id, amount), what it
\* returned (ret) and the allocation map as it was before the call (before)
PoolIdle == [op |-> "none", agent_id |-> "", amount |-> Resource0, ret |-> FALSE,
             before |-> EmptyDict]

NoPool == /\ total = Resource0
          /\ allocated = EmptyDict
          /\ pool_ret = PoolIdle

\* lines 87-89: used = Resource(); for r in allocated.values(): used = used + r
RECURSIVE pool_used(_, _)
pool_used(alloc, ids) ==
    IF ids = <<>> THEN Resource0
    ELSE Resource_add(pool_used(alloc, SubSeq(ids, 1, Len(ids) - 1)),
                      alloc[ids[Len(ids)]])

\* the keys of a dict with keys among PoolAgents, as a sequence
PoolOrder == <<"p1", "p2">>

PoolAgents == {PoolOrder[i] : i \in 1..Len(PoolOrder)}

pool_keys(alloc) ==
    LET Present(a) == a \in DOMAIN alloc
    IN SelectSeq(PoolOrder, Present)

\* a variant of pool_available that forgets what is already allocated
pool_available_all(tot, alloc) == tot

\* lines 85-90: the available property
pool_available(tot, alloc) == Resource_sub(tot, pool_used(alloc, pool_keys(alloc)))

\* a variant of allocate that always grants
allocate_unchecked(tot, alloc, agent_id, amount) ==
    [ret |-> TRUE,
     allocated |-> Put(alloc, agent_id,
                       Resource_add(Get(alloc, agent_id, Resource0), amount))]

\* lines 92-97: returns [ret, allocated]
allocate(tot, alloc, agent_id, amount) ==
    IF ~can_afford(pool_available(tot, alloc), amount)
    THEN [ret |-> FALSE, allocated |-> alloc]
    ELSE [ret |-> TRUE,
          allocated |-> Put(alloc, agent_id,
                            Resource_add(Get(alloc, agent_id, Resource0), amount))]

\* lines 99-101
release(alloc, agent_id, amount) ==
    Put(alloc, agent_id, Resource_sub(Get(alloc, agent_id, Resource0), amount))

PoolTotals == {<<2, 1, 0>>, <<2, 2, 1>>}

PoolAmounts == {<<1, 0, 0>>, <<2, 1, 0>>, <<1, 1, 1>>, Resource0}

Allocate ==
    \E agent_id \in PoolAgents, amount \in PoolAmounts :
        LET done == allocate(total, allocated, agent_id, amount)
        IN /\ allocated' = done.allocated
           /\ pool_ret' = [op |-> "allocate", agent_id |-> agent_id, amount |-> amount,
                           ret |-> done.ret, before |-> allocated]
           /\ UNCHANGED <<total, sim_vars, trust_vars, res_vars>>

Release ==
    \E agent_id \in PoolAgents, amount \in PoolAmounts :
        /\ \A d \in 1..3 : Get(allocated, agent_id, Resource0)[d] - amount[d] >= -MaxDebt
        /\ allocated' = release(allocated, agent_id, amount)
        /\ pool_ret' = [op |-> "release", agent_id |-> agent_id, amount |-> amount,
                        ret |-> FALSE, before |-> allocated]
        /\ UNCHANGED <<total, sim_vars, trust_vars, res_vars>>

\* no TrustSimulator: the base Simulator has neither field
NoTrust == /\ cheater_ids = {}
           /\ default_log = <<>>
           /\ agreed_with_cheater = 0

NoSim == /\ agents = EmptyDict
         /\ max_turns = 0
         /\ round_num = 0
         /\ metrics = <<>>
         /\ full_log = <<>>
         /\ next_id = 1
         /\ pc = "idle"
         /\ mode = "random"
         /\ queue = <<>>
         /\ sellers = <<>>
         /\ round_results = <<>>
         /\ neg = NoNeg
         /\ result = NoResult
         /\ pre_agents = EmptyDict
         /\ last_op = "init"
         /\ pairings_arg = Absent
         /\ run_call = NoRun

\* ResourcePool.__init__, lines 81-83
InitPool ==
    /\ total \in PoolTotals
    /\ allocated = EmptyDict
    /\ pool_ret = PoolIdle
    /\ NoSim
    /\ NoTrust
    /\ NoRes

NextPool == Allocate \/ Release

SpecPool == InitPool /\ [][NextPool]_vars

(***************************************************************************)
(* agents/agent.py: the reputation table of one agent under any sequence   *)
(* of update_reputation and record_deal calls: SpecRep                     *)
(***************************************************************************)
\* bound of the model: record_deal calls per agent (deals only grows)
MaxDeals == 2

Peers == {"a2", "a3"}

Deltas == {R(1, 10), R(-3, 10), RInt(2), RInt(-2)}

InitRep ==
    /\ agents = [a \in {"a1"} |-> NewAgent(a, Resource0, RZero, "fair")]
    /\ max_turns = 0
    /\ round_num = 0
    /\ metrics = <<>>
    /\ full_log = <<>>
    /\ next_id = 1
    /\ pc = "idle"
    /\ mode = "random"
    /\ queue = <<>>
    /\ sellers = <<>>
    /\ round_results = <<>>
    /\ neg = NoNeg
    /\ result = NoResult
    /\ pre_agents = agents
    /\ last_op = "init"
    /\ pairings_arg = Absent
    /\ run_call = NoRun
    /\ NoRes
    /\ NoPool
    /\ NoTrust

UpdateReputation ==
    /\ \E a \in DOMAIN agents, other_id \in Peers, delta \in Deltas :
           agents' = [agents EXCEPT ![a] = update_reputation(@, other_id, delta)]
    /\ pre_agents' = agents
    /\ last_op' = "update_reputation"
    /\ UNCHANGED <<max_turns, round_num, metrics, full_log, next_id, pc, mode, queue,
                   sellers, round_results, neg, result, pool_vars,
                   trust_vars, pairings_arg, run_call, res_vars>>

RecordDeal ==
    /\ \E a \in DOMAIN agents, other_id \in Peers, fulfilled \in BOOLEAN :
           /\ Len(agents[a].deals) < MaxDeals
           /\ agents' = [agents EXCEPT ![a] =
                  record_deal(@, Deal(other_id, <<1, 0, 0>>, ROne, 0, fulfilled))]
    /\ pre_agents' = agents
    /\ last_op' = "record_deal"
    /\ UNCHANGED <<max_turns, round_num, metrics, full_log, next_id, pc, mode, queue,
                   sellers, round_results, neg, result, pool_vars,
                   trust_vars, pairings_arg, run_call, res_vars>>

NextRep == UpdateReputation \/ RecordDeal

SpecRep == InitRep /\ [][NextRep]_vars

(***************************************************************************)
(* Simulator.__init__, lines 51-70, and the specifications                 *)
(***************************************************************************)
Kinds == {"greedy", "fair", "patient", "adaptive", "broker", "cheater"}

NeedChoices == {<<5, 0, 0>>, <<3, 2, 0>>, <<10, 0, 0>>}

StockChoices == {<<5, 0, 0>>, <<10, 4, 1>>}

BudgetChoices == {RZero, RInt(5), RInt(20)}

Simulator_init(agent_map, turns) ==
    /\ agents = agent_map
    /\ max_turns = turns
    /\ round_num = 0
    /\ metrics = <<>>
    /\ full_log = <<>>
    /\ next_id = 1
    /\ pc = "idle"
    /\ mode = "random"
    /\ queue = <<>>
    /\ sellers = <<>>
    /\ round_results = <<>>
    /\ neg = NoNeg
    /\ result = NoResult
    /\ pre_agents = agent_map
    /\ last_op = "init"
    /\ pairings_arg = Absent
    /\ run_call = NoRun
    /\ NoRes

\* One negotiation and its settlement between a1 (buyer) and a2 (seller),
\* for every pair of strategies.
InitNeg ==
    /\ \E kb \in Kinds \cup {"none"}, ks \in Kinds \cup {"none"},
          stock \in StockChoices, bb \in BudgetChoices, sb \in BudgetChoices,
          turns \in 0..MaxTurns :
           Simulator_init(
               [a \in {"a1", "a2"} |->
                   IF a = "a1" THEN NewAgent(a, Resource0, bb, kb)
                   ELSE NewAgent(a, stock, sb, ks)],
               turns)
    /\ NoPool
    /\ NoTrust

RunPair ==
    /\ round_num = 0
    /\ \E need \in NeedChoices :
           RunRound(Given([a \in {"a1"} |-> need]), Given(<<<<"a1", "a2">>>>))

NextNeg ==
    \/ RunPair
    \/ NextPairing
    \/ SellerTurn
    \/ BuyerTurn
    \/ Timeout
    \/ ExecuteDeal
    \/ EndRound

SpecNeg == InitNeg /\ [][NextNeg]_vars

(***************************************************************************)
(* One negotiation with a PatientStrategy on either side: SpecPatient.     *)
(* rounds_waited is a dataclass field (strategies.py line 175), so the     *)
(* instance is built with any count of offers refused so far.              *)
(***************************************************************************)
MaxWaited == 6

InitPatient ==
    /\ \E kb \in Kinds, ks \in Kinds, waited \in 0..MaxWaited,
          stock \in StockChoices, bb \in BudgetChoices, sb \in BudgetChoices,
          turns \in 0..MaxTurns :
           /\ "patient" \in {kb, ks}
           /\ Simulator_init(
                  [a \in {"a1", "a2"} |->
                      [(IF a = "a1" THEN NewAgent(a, Resource0, bb, kb)
                        ELSE NewAgent(a, stock, sb, ks))
                           EXCEPT !.strategy.rounds_waited =
                                      IF (IF a = "a1" THEN kb ELSE ks) = "patient"
                                      THEN waited ELSE @]],
                  turns)
    /\ NoPool
    /\ NoTrust

SpecPatient == InitPatient /\ [][NextNeg]_vars

(***************************************************************************)
(* The base Simulator over rounds: Spec                                    *)
(***************************************************************************)
\* the populations the simulator is built with: per agent its strategy,
\* holdings, budget and reputation table
Configs ==
    {[kind |-> [a1 |-> "greedy", a2 |-> "fair", a3 |-> "greedy"],
      stock |-> [a1 |-> Resource0, a2 |-> Resource0, a3 |-> <<6, 4, 1>>],
      budget |-> [a1 |-> RInt(20), a2 |-> RInt(5), a3 |-> RInt(20)],
      rep |-> [a1 |-> EmptyDict, a2 |-> EmptyDict, a3 |-> EmptyDict]],
     [kind |-> [a1 |-> "fair", a2 |-> "adaptive", a3 |-> "cheater"],
      stock |-> [a1 |-> Resource0, a2 |-> Resource0, a3 |-> <<5, 0, 0>>],
      budget |-> [a1 |-> RInt(20), a2 |-> RInt(5), a3 |-> RZero],
      rep |-> [a1 |-> EmptyDict, a2 |-> EmptyDict, a3 |-> EmptyDict]],
     [kind |-> [a1 |-> "adaptive", a2 |-> "none", a3 |-> "fair"],
      stock |-> [a1 |-> Resource0, a2 |-> <<5, 0, 0>>, a3 |-> <<6, 4, 1>>],
      budget |-> [a1 |-> RInt(20), a2 |-> RInt(20), a3 |-> RInt(5)],
      rep |-> [a1 |-> [a3 |-> R(19, 20)], a2 |-> EmptyDict, a3 |-> [a1 |-> ROne]]],
     [kind |-> [a1 |-> "patient", a2 |-> "fair", a3 |-> "broker"],
      stock |-> [a1 |-> Resource0, a2 |-> Resource0, a3 |-> <<6, 4, 1>>],
      budget |-> [a1 |-> RInt(5), a2 |-> RZero, a3 |-> RInt(20)],
      rep |-> [a1 |-> EmptyDict, a2 |-> [a3 |-> R(1, 5)], a3 |-> EmptyDict]],
     [kind |-> [a1 |-> "fair"],
      stock |-> [a1 |-> <<5, 0, 0>>],
      budget |-> [a1 |-> RInt(5)],
      rep |-> [a1 |-> EmptyDict]]}

\* pending_needs the agents are built with (a dataclass field of Agent)
InitialNeeds == [a1 |-> <<5, 0, 0>>, a2 |-> <<5, 0, 0>>, a3 |-> Resource0]

Init ==
    /\ \E cfg \in Configs :
           Simulator_init(
               [a \in DOMAIN cfg.kind |->
                   [NewAgent(a, cfg.stock[a], cfg.budget[a], cfg.kind[a])
                        EXCEPT !.pending_needs = InitialNeeds[a],
                               !.reputation_table = cfg.rep[a]]],
               MaxTurns)
    /\ NoPool
    /\ NoTrust

\* the needs argument of run_round: None, or one of these maps
NeedMaps ==
    {m \in {[a1 |-> <<3, 2, 0>>], [a2 |-> Resource0], [a3 |-> <<5, 0, 0>>]} :
        DOMAIN m \subseteq DOMAIN agents}

NeedsInputs == {Absent} \cup {Given(m) : m \in NeedMaps}

\* the pairings argument of run_round: None, or one of these lists (the
\* empty list, one pair, two buyers of one seller in either order, a self
\* pairing)
PairingLists ==
    {l \in {<<>>,
            <<<<"a1", "a3">>>>,
            <<<<"a1", "a3">>, <<"a2", "a3">>>>,
            <<<<"a2", "a3">>, <<"a1", "a3">>>>,
            <<<<"a3", "a3">>>>} :
        \A i \in 1..Len(l) : l[i][1] \in DOMAIN agents /\ l[i][2] \in DOMAIN agents}

PairingsInputs == {Absent} \cup {Given(l) : l \in PairingLists}

Round ==
    \E needs \in NeedsInputs, pairings \in PairingsInputs : RunRound(needs, pairings)

Next ==
    \/ Round
    \/ NextPairing
    \/ NextBuyer
    \/ SkipBuyer
    \/ SellerTurn
    \/ BuyerTurn
    \/ Timeout
    \/ ExecuteDeal
    \/ EndRound

Spec == Init /\ [][Next]_vars

(***************************************************************************)
(* The TrustSimulator over rounds: SpecTrust                               *)
(***************************************************************************)
\* the populations handed to TrustSimulator, the ids given to mark_cheater
\* and the cheat_probability the Cheater strategies are built with
TrustConfigs ==
    {[kind |-> [a1 |-> "fair", a2 |-> "adaptive", a3 |-> "cheater"],
      stock |-> [a1 |-> <<5, 0, 0>>, a2 |-> Resource0, a3 |-> <<5, 0, 0>>],
      budget |-> [a1 |-> RInt(20), a2 |-> RInt(5), a3 |-> RZero],
      cheat_probability |-> p, marked |-> ids, wrapped |-> {}] :
        p \in {ROne, RHalf(ROne)}, ids \in {{"a3"}}}
    \cup
    {[kind |-> [a1 |-> "fair", a2 |-> "adaptive", a3 |-> "cheater"],
      stock |-> [a1 |-> <<5, 0, 0>>, a2 |-> Resource0, a3 |-> <<5, 0, 0>>],
      budget |-> [a1 |-> RInt(20), a2 |-> RInt(5), a3 |-> RZero],
      cheat_probability |-> ROne, marked |-> {}, wrapped |-> {}],
     [kind |-> [a1 |-> "greedy", a2 |-> "fair", a3 |-> "greedy"],
      stock |-> [a1 |-> Resource0, a2 |-> Resource0, a3 |-> <<6, 4, 1>>],
      budget |-> [a1 |-> RInt(20), a2 |-> RInt(5), a3 |-> RInt(20)],
      cheat_probability |-> ROne, marked |-> {"a3"}, wrapped |-> {}],
     [kind |-> [a1 |-> "cheater"],
      stock |-> [a1 |-> <<5, 0, 0>>],
      budget |-> [a1 |-> RInt(5)],
      cheat_probability |-> ROne, marked |-> {"a1"}, wrapped |-> {}],
     \* setup_trust_agents, lines 193-238: the honest agents are wrapped
     [kind |-> [a1 |-> "fair", a2 |-> "adaptive", a3 |-> "cheater"],
      stock |-> [a1 |-> <<5, 0, 0>>, a2 |-> Resource0, a3 |-> <<10, 0, 0>>],
      budget |-> [a1 |-> RInt(20), a2 |-> RInt(5), a3 |-> RZero],
      cheat_probability |-> RHalf(ROne), marked |-> {"a3"},
      wrapped |-> {"a1", "a2"}],
     \* populations with the remaining strategy variants
     [kind |-> [a1 |-> "patient", a2 |-> "broker", a3 |-> "greedy"],
      stock |-> [a1 |-> Resource0, a2 |-> Resource0, a3 |-> <<6, 4, 1>>],
      budget |-> [a1 |-> RInt(20), a2 |-> RInt(5), a3 |-> RInt(20)],
      cheat_probability |-> ROne, marked |-> {}, wrapped |-> {}],
     [kind |-> [a1 |-> "greedy", a2 |-> "greedy", a3 |-> "broker"],
      stock |-> [a1 |-> Resource0, a2 |-> Resource0, a3 |-> <<6, 4, 1>>],
      budget |-> [a1 |-> RInt(20), a2 |-> RInt(5), a3 |-> RZero],
      cheat_probability |-> ROne, marked |-> {}, wrapped |-> {"a2"}],
     [kind |-> [a1 |-> "greedy", a2 |-> "broker", a3 |-> "cheater"],
      stock |-> [a1 |-> <<5, 0, 0>>, a2 |-> Resource0, a3 |-> <<5, 0, 0>>],
      budget |-> [a1 |-> RInt(20), a2 |-> RInt(5), a3 |-> RInt(5)],
      cheat_probability |-> ROne, marked |-> {"a3"}, wrapped |-> {}]}

InitTrust ==
    /\ \E cfg \in TrustConfigs :
           /\ Simulator_init(
                  [a \in DOMAIN cfg.kind |->
                      [NewAgent(a, cfg.stock[a], cfg.budget[a], cfg.kind[a])
                           EXCEPT !.pending_needs = InitialNeeds[a],
                                  !.strategy.cheat_probability = cfg.cheat_probability,
                                  !.strategy.wrapped = a \in cfg.wrapped]],
                  MaxTurns)
           /\ cheater_ids = cfg.marked
    /\ default_log = <<>>
    /\ agreed_with_cheater = 0
    /\ NoPool

\* in Round and the steps of _negotiate the TrustSimulator is a Simulator
NextTrust ==
    \/ Round
    \/ NextPairing
    \/ NextBuyer
    \/ SkipBuyer
    \/ SellerTurn
    \/ BuyerTurn
    \/ Timeout
    \/ TrustExecuteDeal
    \/ EndRound

SpecTrust == InitTrust /\ [][NextTrust]_vars

(***************************************************************************)
(* One Adaptive agent handed messages through Agent.receive: SpecAdapt     *)
(***************************************************************************)
MaxReceived == 3

AdaptAgent == NewAgent("a1", <<10, 4, 1>>, RInt(20), "adaptive")

\* the messages a peer a2 may send to a1
AdaptMessages ==
    {Message("REJECT", "a2", "a1", Reason("too_expensive"), 0),
     Message("REJECT", "a2", "a1", EmptyDict, 0),
     Message("ACCEPT", "a2", "a1", DealPayload(<<5, 0, 0>>, RInt(10)), 0),
     Message("COUNTER", "a2", "a1", DealPayload(<<5, 0, 0>>, RInt(5)), 0),
     Message("OFFER", "a2", "a1", DealPayload(<<5, 0, 0>>, RInt(30)), 0),
     Message("REQUEST", "a2", "a1",
             RequestPayload(<<5, 0, 0>>, RInt(6), R(1, 2)), 0)}

InitAdapt ==
    /\ agents = [a \in {"a1"} |-> AdaptAgent]
    /\ max_turns = 0
    /\ round_num = 0
    /\ metrics = <<>>
    /\ full_log = <<>>
    /\ next_id = 1
    /\ pc = "idle"
    /\ mode = "random"
    /\ queue = <<>>
    /\ sellers = <<>>
    /\ round_results = <<>>
    /\ neg = NoNeg
    /\ result = NoResult
    /\ pre_agents = agents
    /\ last_op = "init"
    /\ pairings_arg = Absent
    /\ run_call = NoRun
    /\ NoRes
    /\ NoPool
    /\ NoTrust

\* agent.receive(msg), agents/agent.py lines 70-75
Receive ==
    /\ Len(agents["a1"].message_log) < MaxReceived
    /\ \E msg \in AdaptMessages :
           agents' = [agents EXCEPT !["a1"] = receive(@, msg, next_id).agent]
    /\ next_id' = next_id + 1
    /\ pre_agents' = agents
    /\ last_op' = "receive"
    /\ UNCHANGED <<max_turns, round_num, metrics, full_log, pc, mode, queue,
                   sellers, round_results, neg, result, pool_vars, trust_vars,
                   pairings_arg, run_call, res_vars>>

NextAdapt == Receive

SpecAdapt == InitAdapt /\ [][NextAdapt]_vars

(***************************************************************************)
(* Simulator.run, lines 280-286: SpecRun                                   *)
(***************************************************************************)
\* a variant of range(rounds) that runs one round more
run_iterations_inclusive(rounds) == rounds + 1

\* line 283: for _ in range(rounds)
run_iterations(rounds) == IF rounds > 0 THEN rounds ELSE 0

\* sim.run(rounds, needs_per_round) is called; line 282
RunCall ==
    /\ pc = "idle"
    /\ run_call.status # "running"
    /\ \E rounds \in 0..(MaxRounds - round_num), needs \in NeedsInputs :
           run_call' = [status |-> "running", rounds |-> rounds, needs |-> needs,
                        start |-> round_num, all_metrics |-> <<>>]
    /\ pre_agents' = agents
    /\ last_op' = "run"
    /\ UNCHANGED <<agents, max_turns, round_num, metrics, full_log, next_id, pc,
                   mode, queue, sellers, round_results, neg, result, pairings_arg,
                   pool_vars, trust_vars, res_vars>>

\* line 284: m = self.run_round(needs=needs_per_round), the call
RunIterate ==
    /\ run_call.status = "running"
    /\ Len(run_call.all_metrics) < run_iterations(run_call.rounds)
    /\ Len(run_call.all_metrics) = round_num - run_call.start
    /\ RunRound(run_call.needs, Absent)

\* lines 284-285: run_round has returned m; all_metrics.append(m)
RunCollect ==
    /\ run_call.status = "running"
    /\ pc = "idle"
    /\ Len(run_call.all_metrics) < round_num - run_call.start
    /\ run_call' = [run_call EXCEPT !.all_metrics = Append(@, metrics[Len(metrics)])]
    /\ pre_agents' = agents
    /\ last_op' = "collect"
    /\ UNCHANGED <<agents, max_turns, round_num, metrics, full_log, next_id, pc,
                   mode, queue, sellers, round_results, neg, result, pairings_arg,
                   pool_vars, trust_vars, res_vars>>

\* line 286: return all_metrics
RunReturn ==
    /\ run_call.status = "running"
    /\ pc = "idle"
    /\ Len(run_call.all_metrics) = round_num - run_call.start
    /\ Len(run_call.all_metrics) >= run_iterations(run_call.rounds)
    /\ run_call' = [run_call EXCEPT !.status = "returned"]
    /\ pre_agents' = agents
    /\ last_op' = "return"
    /\ UNCHANGED <<agents, max_turns, round_num, metrics, full_log, next_id, pc,
                   mode, queue, sellers, round_results, neg, result, pairings_arg,
                   pool_vars, trust_vars, res_vars>>

NextRun ==
    \/ RunCall
    \/ RunIterate
    \/ NextBuyer
    \/ SkipBuyer
    \/ SellerTurn
    \/ BuyerTurn
    \/ Timeout
    \/ ExecuteDeal
    \/ EndRound
    \/ RunCollect
    \/ RunReturn

SpecRun == Init /\ [][NextRun]_vars

(***************************************************************************)
(* agents/resource.py: Resource over floats, SpecRes                       *)
(* The fields of a Resource are Python floats.  Here a number is a record  *)
(* [type, v]: type "float" or "int", v the exact rational it denotes.  A   *)
(* float carries FloatPrecision significant bits (53 in the program) and   *)
(* every float operation rounds its exact result to the nearest such       *)
(* number, ties to even; the exponent range is not modelled.  Resource_add *)
(* and Resource_sub above are __add__ and __sub__ on integer quantities    *)
(* small enough that nothing is rounded.                                   *)
(***************************************************************************)
FloatPrecision == 3

MaxObjects == 5

RECURSIVE Pow2(_)
Pow2(k) == IF k = 0 THEN 1 ELSE 2 * Pow2(k - 1)

\* n / d > 0 scaled by a power of two into [2^(p-1), 2^p): <<n', d', exponent>>
RECURSIVE float_normalise(_, _, _)
float_normalise(n, d, e) ==
    IF n >= Pow2(FloatPrecision) * d THEN float_normalise(n, 2 * d, e + 1)
    ELSE IF n < Pow2(FloatPrecision - 1) * d THEN float_normalise(2 * n, d, e - 1)
    ELSE <<n, d, e>>

\* the float nearest to the rational x, ties to even
float_round(x) ==
    IF x[1] = 0 THEN RZero
    ELSE LET nm == float_normalise(IAbs(x[1]), x[2], 0)
             q == nm[1] \div nm[2]
             r == nm[1] % nm[2]
             up == 2 * r > nm[2] \/ (2 * r = nm[2] /\ q % 2 = 1)
             m == IF up THEN q + 1 ELSE q
             mag == IF nm[3] >= 0 THEN R(m * Pow2(nm[3]), 1) ELSE R(m, Pow2(-nm[3]))
         IN IF x[1] < 0 THEN RNeg(mag) ELSE mag

PyFloat(x) == [type |-> "float", v |-> float_round(x)]

PyInt(i) == [type |-> "int", v |-> RInt(i)]

\* x + y, x - y, x * y on Python numbers: exact on two ints, rounded otherwise
num_add(x, y) ==
    IF x.type = "int" /\ y.type = "int" THEN [type |-> "int", v |-> RAdd(x.v, y.v)]
    ELSE PyFloat(RAdd(x.v, y.v))

num_sub(x, y) ==
    IF x.type = "int" /\ y.type = "int" THEN [type |-> "int", v |-> RSub(x.v, y.v)]
    ELSE PyFloat(RSub(x.v, y.v))

num_mul(x, y) ==
    IF x.type = "int" /\ y.type = "int" THEN [type |-> "int", v |-> RMul(x.v, y.v)]
    ELSE PyFloat(RMul(x.v, y.v))

\* x == y on Python numbers
num_eq(x, y) == x.v = y.v

Resource__add__(self, other) ==
    <<num_add(self[1], other[1]), num_add(self[2], other[2]),
      num_add(self[3], other[3])>>

\* a variant of __sub__ with the operands exchanged
Resource__sub__reversed(self, other) ==
    <<num_sub(other[1], self[1]), num_sub(other[2], self[2]),
      num_sub(other[3], self[3])>>

Resource__sub__(self, other) ==
    <<num_sub(self[1], other[1]), num_sub(self[2], other[2]),
      num_sub(self[3], other[3])>>

Resource__mul__(self, scalar) ==
    <<num_mul(self[1], scalar), num_mul(self[2], scalar), num_mul(self[3], scalar)>>

\* the dataclass __eq__: field by field
Resource__eq__(self, other) == \A i \in 1..3 : num_eq(self[i], other[i])

\* a variant of from_dict whose default is 1
Resource_from_dict_unit(d) ==
    <<Get(d, "gpu_hours", PyInt(1)), Get(d, "cpu_hours", PyInt(1)),
      Get(d, "memory_gb_hours", PyInt(1))>>

\* from_dict on Python numbers: d.get(key, 0), the int 0
Resource_from_dict(d) ==
    <<Get(d, "gpu_hours", PyInt(0)), Get(d, "cpu_hours", PyInt(0)),
      Get(d, "memory_gb_hours", PyInt(0))>>

ResObj(vec) == [kind |-> "Resource", value |-> vec]

DictObj(d) == [kind |-> "dict", value |-> d]

\* how an object came to be: given from outside, or made by a call
Made(op, left, right, scalar) ==
    [op |-> op, left |-> left, right |-> right, scalar |-> scalar]

\* the vectors, mappings and scalars a session starts from
ResourceInputs ==
    {<<PyFloat(x[1]), PyFloat(x[2]), PyFloat(x[3])>> :
        x \in {<<ROne, RZero, RZero>>,
               <<RInt(10), RInt(18), RZero>>,
               <<R(3, 4), ROne, RInt(10)>>}}

DictInputs ==
    {EmptyDict,
     [k \in {"cpu_hours"} |-> PyFloat(R(5, 2))],
     [k \in {"gpu_hours", "memory_gb_hours", "label"} |-> PyInt(2)]}

ScalarInputs == {PyFloat(R(1, 2)), PyInt(3)}

Resources == {i \in 1..Len(heap) : heap[i].kind = "Resource"}

Dicts == {i \in 1..Len(heap) : heap[i].kind = "dict"}

InitRes ==
    /\ \E a \in ResourceInputs, b \in ResourceInputs, d \in DictInputs :
           heap = <<ResObj(a), ResObj(b), DictObj(d)>>
    /\ origin = [i \in 1..3 |-> Made("given", 0, 0, PyInt(0))]
    /\ NoSim
    /\ NoPool
    /\ NoTrust

\* c = a + b
Add ==
    /\ Len(heap) < MaxObjects
    /\ \E i \in Resources, j \in Resources :
           /\ heap' = Append(heap, ResObj(Resource__add__(heap[i].value, heap[j].value)))
           /\ origin' = Append(origin, Made("add", i, j, PyInt(0)))
    /\ UNCHANGED <<sim_vars, pool_vars, trust_vars>>

\* c = a - b
Sub ==
    /\ Len(heap) < MaxObjects
    /\ \E i \in Resources, j \in Resources :
           /\ heap' = Append(heap, ResObj(Resource__sub__(heap[i].value, heap[j].value)))
           /\ origin' = Append(origin, Made("sub", i, j, PyInt(0)))
    /\ UNCHANGED <<sim_vars, pool_vars, trust_vars>>

\* c = a * scalar
Mul ==
    /\ Len(heap) < MaxObjects
    /\ \E i \in Resources, scalar \in ScalarInputs :
           /\ heap' = Append(heap, ResObj(Resource__mul__(heap[i].value, scalar)))
           /\ origin' = Append(origin, Made("mul", i, 0, scalar))
    /\ UNCHANGED <<sim_vars, pool_vars, trust_vars>>

\* d = a.to_dict()
ToDict ==
    /\ Len(heap) < MaxObjects
    /\ \E i \in Resources :
           /\ heap' = Append(heap, DictObj(to_dict(heap[i].value)))
           /\ origin' = Append(origin, Made("to_dict", i, 0, PyInt(0)))
    /\ UNCHANGED <<sim_vars, pool_vars, trust_vars>>

\* c = Resource.from_dict(d)
FromDict ==
    /\ Len(heap) < MaxObjects
    /\ \E i \in Dicts :
           /\ heap' = Append(heap, ResObj(Resource_from_dict(heap[i].value)))
           /\ origin' = Append(origin, Made("from_dict", i, 0, PyInt(0)))
    /\ UNCHANGED <<sim_vars, pool_vars, trust_vars>>

NextRes == Add \/ Sub \/ Mul \/ ToDict \/ FromDict

SpecRes == InitRes /\ [][NextRes]_vars

C2_DefaultLeavesLedgers ==
    last_op = "defaulted" =>
        \A x \in {result.buyer_id, result.seller_id} :
            /\ agents[x].resources = pre_agents[x].resources
            /\ agents[x].budget = pre_agents[x].budget

\* an agreed deal has just fallen through because the buyer could not pay
C2_Witness ==
    /\ last_op = "defaulted"
    /\ result.buyer_id # result.seller_id
    /\ RLt(pre_agents[result.buyer_id].budget, result.price)

\* C3: in every state of the base Simulator no agent holds a negative
\* amount in any dimension and no agent's budget is negative.
C3_NeverNegative ==
    \A a \in DOMAIN agents :
        /\ \A d \in 1..3 : agents[a].resources[d] >= 0
        /\ agents[a].budget[1] >= 0
        /\ agents[a].budget[2] > 0

\* a second buyer's agreed deal with a seller that sold out to the first
\* buyer earlier in the same round has just fallen through
C3_Witness ==
    /\ last_op = "defaulted"
    /\ Len(round_results) = 2
    /\ round_results[1].agreed
    /\ round_results[1].seller_id = result.seller_id
    /\ round_results[1].buyer_id # result.buyer_id
    /\ ~can_afford(agents[result.seller_id].resources, result.resource)

(***************************************************************************)
(* Properties of _negotiate (SpecNeg)                                      *)
(***************************************************************************)
\* the trail so far: the opening message and two messages per finished
\* exchange, with the turn counter within the cap
C4_InLoop ==
    /\ pc = "seller" => /\ neg.turns <= max_turns
                        /\ Len(neg.messages) = 2 * neg.turns + 1
    /\ pc = "buyer" => /\ neg.turns < max_turns
                       /\ Len(neg.messages) = 2 * neg.turns + 2

\* what _negotiate reports is within the cap
C4_Reported ==
    /\ result.rounds <= max_turns
    /\ Len(result.messages) <= 2 * max_turns + 1

\* the trail alternates buyer, seller, buyer, ... and is in the order the
\* messages were produced
C4_TrailInOrder ==
    /\ \A i \in 1..Len(result.messages) :
           result.messages[i].sender_id =
               IF i % 2 = 1 THEN result.buyer_id ELSE result.seller_id
    /\ \A i \in 1..(Len(result.messages) - 1) :
           /\ result.messages[i].msg_id < result.messages[i + 1].msg_id
           /\ result.messages[i + 1].reply_to = result.messages[i].msg_id

\* the result when max_turns exchanges passed without a terminal reply
C4_AtCap ==
    (last_op = "timeout") =>
        /\ ~result.agreed
        /\ result.resource = None
        /\ result.price = RZero
        /\ result.rounds = max_turns
        /\ Len(result.messages) = 2 * max_turns + 1
        /\ \A i \in 2..Len(result.messages) : result.messages[i].msg_type = "COUNTER"

\* what is left of the loop: two steps per exchange still allowed, one more
\* while the seller's half of the current exchange is ahead
C4_Measure(turns, at) == 2 * (max_turns - turns) + (IF at = "seller" THEN 1 ELSE 0)

\* a step taken inside the loop leaves it or shortens what is left of it
C4_Decreases ==
    pc \in {"seller", "buyer"} =>
        \/ pc' = "settle"
        \/ /\ pc' \in {"seller", "buyer"}
           /\ C4_Measure(neg'.turns, pc') < C4_Measure(neg.turns, pc)
           /\ C4_Measure(neg'.turns, pc') >= 0

\* inside the loop the next step is defined: the agent whose turn it is
\* answers the message in flight with a message of the protocol or with None
C4_StepDefined ==
    LET Answered(m) ==
            IsNone(m) \/ m.msg_type \in {"REQUEST", "OFFER", "COUNTER", "ACCEPT",
                                         "REJECT", "QUERY_REPUTATION"}
    IN /\ (pc = "seller" /\ loop_condition) =>
              Answered(receive(agents[neg.seller], neg.current_msg, next_id).reply)
       /\ pc = "buyer" =>
              Answered(receive(agents[neg.buyer], neg.messages[Len(neg.messages)],
                               next_id).reply)

\* C4: for every pair of strategies and every max_turns = N >= 0 a
\* negotiation ends (inside the loop the next step is defined, and every
\* step leaves the loop or shortens what is left of it); the reported rounds
\* never exceed N and the trail never exceeds 2N+1 messages; and when N full
\* exchanges pass without ACCEPT, REJECT or a missing reply the result is a
\* failure with no resource, price 0, rounds = N and all 2N+1 messages in
\* production order.
C4_NegotiationBounded ==
    /\ [](C4_InLoop /\ C4_Reported /\ C4_TrailInOrder /\ C4_AtCap /\ C4_StepDefined)
    /\ [][C4_Decreases]_vars

\* a negotiation with a cap of at least two exchanges has just run into it
C4_Witness ==
    /\ last_op = "timeout"
    /\ max_turns >= 2
    /\ result.rounds = max_turns
    /\ Len(result.messages) = 2 * max_turns + 1

(***************************************************************************)
(* Properties of the reputation table (SpecRep)                            *)
(***************************************************************************)
\* C5: reputation_of answers exactly 1/2 for a peer with no entry in the
\* table, and after any sequence of update_reputation and record_deal calls,
\* whatever the deltas, every stored score is at least 0 and at most 1.
C5_ReputationClamped ==
    \A a \in DOMAIN agents :
        /\ \A other_id \in (Peers \cup {a}) \ DOMAIN agents[a].reputation_table :
               reputation_of(agents[a], other_id) = <<1, 2>>
        /\ \A other_id \in DOMAIN agents[a].reputation_table :
               LET score == agents[a].reputation_table[other_id]
               IN /\ score[2] > 0
                  /\ 0 <= score[1]
                  /\ score[1] <= score[2]

\* a failed deal has just taken a peer's score from above the floor to 0,
\* while another peer is still unseen
C5_Witness ==
    /\ last_op = "record_deal"
    /\ \E a \in DOMAIN agents, other_id \in Peers :
           /\ other_id \in DOMAIN agents[a].reputation_table
           /\ agents[a].reputation_table[other_id] = <<0, 1>>
           /\ other_id \in DOMAIN pre_agents[a].reputation_table
           /\ pre_agents[a].reputation_table[other_id] = <<1, 5>>
           /\ Peers \ DOMAIN agents[a].reputation_table # {}

(***************************************************************************)
(* Properties of ResourcePool (SpecPool)                                   *)
(***************************************************************************)
\* what the entries of an allocation map add up to in dimension d
RECURSIVE AllocatedIn(_, _, _)
AllocatedIn(alloc, ids, d) ==
    IF ids = {} THEN 0
    ELSE LET a == CHOOSE x \in ids : TRUE
         IN alloc[a][d] + AllocatedIn(alloc, ids \ {a}, d)

\* C6: after any sequence of allocate and release calls on a pool, in every
\* dimension the allocations add up to at most total, and available is total
\* minus what the allocations add up to.
C6_PoolWithinTotal ==
    \A d \in 1..3 :
        /\ AllocatedIn(allocated, DOMAIN allocated, d) <= total[d]
        /\ pool_available(total, allocated)[d]
               = total[d] - AllocatedIn(allocated, DOMAIN allocated, d)

\* a granted allocation has just filled the pool in some dimension, with two
\* agents holding part of it and nobody in debt
C6_Witness ==
    /\ pool_ret.op = "allocate"
    /\ pool_ret.ret
    /\ DOMAIN allocated = PoolAgents
    /\ \A a \in PoolAgents : can_afford(allocated[a], Resource0) /\ total_units(allocated[a]) > 0
    /\ \E d \in 1..3 : total[d] > 0 /\ AllocatedIn(allocated, DOMAIN allocated, d) = total[d]

\* C7: allocate(agent, amount) returns false and leaves the allocation map
\* as it was, with no entry created, when what is left of total does not
\* cover amount in some dimension; otherwise it returns true, that agent's
\* allocation grows by exactly amount and every other entry is as it was.
C7_AllocateContract ==
    pool_ret.op = "allocate" =>
        LET before == pool_ret.before
            covered == \A d \in 1..3 :
                           total[d] - AllocatedIn(before, DOMAIN before, d)
                               >= pool_ret.amount[d]
        IN IF ~covered
           THEN /\ ~pool_ret.ret
                /\ allocated = before
           ELSE /\ pool_ret.ret
                /\ DOMAIN allocated = DOMAIN before \cup {pool_ret.agent_id}
                /\ \A d \in 1..3 :
                       allocated[pool_ret.agent_id][d] =
                           (IF pool_ret.agent_id \in DOMAIN before
                            THEN before[pool_ret.agent_id][d] ELSE 0)
                               + pool_ret.amount[d]
                /\ \A a \in DOMAIN before \ {pool_ret.agent_id} :
                       allocated[a] = before[a]

\* an agent with no entry has just been refused, what is left being short in
\* one dimension only, and has still no entry
C7_Witness ==
    /\ pool_ret.op = "allocate"
    /\ ~pool_ret.ret
    /\ pool_ret.agent_id \notin DOMAIN allocated
    /\ \E d \in 1..3 : pool_available(total, allocated)[d] >= pool_ret.amount[d]
                       /\ pool_ret.amount[d] > 0

(***************************************************************************)
(* Agents without a strategy (Spec)                                        *)
(***************************************************************************)
\* C8: receive on an agent with no strategy fails with a configuration
\* error: it never completes with "no reply", which _negotiate would turn
\* into an ordinary failed negotiation handed on to settlement.
C8_ReceiveNeedsStrategy ==
    ~ /\ last_op = "seller"
      /\ agents[neg.seller].strategy.kind = "none"
      /\ Len(agents[neg.seller].message_log) > Len(pre_agents[neg.seller].message_log)
      /\ pc = "settle"
      /\ ~result.agreed

\* a strategy-less buyer never gets a negotiation opened, and when
\* initiate_negotiation has raised, every agent is as it was before the call
C9_Failed ==
    /\ last_op = "open" => agents[neg.buyer].strategy.kind # "none"
    /\ pc = "error" => last_op = "raise" /\ agents = pre_agents

\* the step that raises creates no message, delivers none and records
\* nothing, and no step follows it
C9_RaiseStep ==
    /\ pc # "error"
    /\ pc' = "error" =>
           /\ agents' = agents
           /\ next_id' = next_id
           /\ neg' = neg
           /\ round_results' = round_results
           /\ metrics' = metrics
           /\ full_log' = full_log

\* C9: initiate_negotiation on an agent with no strategy fails before any
\* message is created or delivered: no agent's resources, budget, reputation,
\* deals or message log changes, and nothing runs after the failure.
C9_InitiateNeedsStrategy == []C9_Failed /\ [][C9_RaiseStep]_vars

\* a strategy-less buyer's turn has just raised, after an earlier
\* negotiation of the same round delivered messages
C9_Witness ==
    /\ pc = "error"
    /\ last_op = "raise"
    /\ round_results # <<>>
    /\ \E a \in DOMAIN agents : agents[a].message_log # <<>>

(***************************************************************************)
(* A seller that is short of the requested resource (SpecNeg)              *)
(***************************************************************************)
\* the seller (with a strategy) has just answered the opening REQUEST, and
\* it holds less than was requested in some dimension
C10_ShortSellerAnswered ==
    /\ last_op = "seller"
    /\ neg.turns = 0
    /\ Len(neg.messages) = 2
    /\ neg.messages[1].msg_type = "REQUEST"
    /\ \E d \in 1..3 :
           pre_agents[neg.seller].resources[d]
               < Get(neg.messages[1].payload["resource"],
                     <<"gpu_hours", "cpu_hours", "memory_gb_hours">>[d], 0)

C10_Answer == neg.messages[2]

C10_SellerKind == agents[neg.seller].strategy.kind

\* C10 as stated: every variant, Broker and Cheater included, answers with
\* REJECT insufficient_resources.
C10_EveryVariantRejects ==
    C10_ShortSellerAnswered =>
        /\ C10_Answer.msg_type = "REJECT"
        /\ C10_Answer.payload = [reason |-> "insufficient_resources"]

\* C10, amended: Greedy, Fair, Patient and Adaptive answer with REJECT
\* insufficient_resources; Broker answers with REJECT
\* no_resources_but_tracking; Cheater does not look at its holdings and
\* answers ACCEPT when max_price is at least 0.8 per requested unit, else
\* REJECT not_enough. No variant answers with COUNTER.
C10_ShortSellerRejects ==
    C10_ShortSellerAnswered =>
        /\ C10_SellerKind \in {"greedy", "fair", "patient", "adaptive"} =>
               /\ C10_Answer.msg_type = "REJECT"
               /\ C10_Answer.payload = [reason |-> "insufficient_resources"]
        /\ C10_SellerKind = "broker" =>
               /\ C10_Answer.msg_type = "REJECT"
               /\ C10_Answer.payload = [reason |-> "no_resources_but_tracking"]
        /\ C10_SellerKind = "cheater" =>
               LET units == neg.need[1] + neg.need[2] + neg.need[3]
                   max_price == neg.messages[1].payload["max_price"]
               IN IF 5 * max_price[1] >= 4 * units * max_price[2]
                  THEN C10_Answer.msg_type = "ACCEPT"
                  ELSE /\ C10_Answer.msg_type = "REJECT"
                       /\ C10_Answer.payload = [reason |-> "not_enough"]

\* a Fair seller that holds as many units as were requested, but not in the
\* requested dimensions, has just answered
C10_Witness ==
    /\ C10_ShortSellerAnswered
    /\ C10_SellerKind = "fair"
    /\ total_units(pre_agents[neg.seller].resources) >= total_units(neg.need)

(***************************************************************************)
(* The Fair seller's first answer (SpecNeg)                                *)
(***************************************************************************)
\* a Fair seller holding the requested resource has just answered the
\* opening REQUEST
C11_FairSellerAnswered ==
    /\ last_op = "seller"
    /\ neg.turns = 0
    /\ Len(neg.messages) = 2
    /\ neg.messages[1].msg_type = "REQUEST"
    /\ agents[neg.seller].strategy.kind = "fair"
    /\ \A d \in 1..3 : pre_agents[neg.seller].resources[d] >= neg.need[d]

\* C11: a Fair seller with stock accepts in turn 1 exactly when the buyer's
\* max_price is at least 0.85 x the fair price (the requested units), at the
\* fair price when the buyer's maximum reaches it and at the buyer's maximum
\* otherwise; the result is then agreed with that price and rounds = 1.  With
\* a Fair buyer and a need of 10 units the REQUEST carries max_price 11.5 and
\* the seller accepts at 10.
C11_FairAcceptance ==
    C11_FairSellerAnswered =>
        LET units == neg.need[1] + neg.need[2] + neg.need[3]
            max_price == neg.messages[1].payload["max_price"]
            answer == neg.messages[2]
            in_band == 20 * max_price[1] >= 17 * units * max_price[2]
        IN /\ (answer.msg_type = "ACCEPT") <=> in_band
           /\ in_band =>
                  /\ answer.payload["price"] =
                         IF max_price[1] >= units * max_price[2]
                         THEN <<units, 1>> ELSE max_price
                  /\ pc = "settle"
                  /\ result.agreed
                  /\ result.price = answer.payload["price"]
                  /\ result.resource = neg.need
                  /\ result.rounds = 1
           /\ (agents[neg.buyer].strategy.kind = "fair" /\ units = 10) =>
                  /\ max_price = <<23, 2>>
                  /\ answer.msg_type = "ACCEPT"
                  /\ result.price = <<10, 1>>

\* Fair buyer, Fair seller, 10 units: agreed at 10 in one round
C11_Witness ==
    /\ C11_FairSellerAnswered
    /\ agents[neg.buyer].strategy.kind = "fair"
    /\ neg.need = <<10, 0, 0>>
    /\ result.agreed
    /\ result.price = <<10, 1>>
    /\ result.rounds = 1

(***************************************************************************)
(* What _negotiate leaves alone (SpecNeg)                                  *)
(***************************************************************************)
\* C12: every step of _negotiate (the opening, each seller's and buyer's
\* turn, the return at the cap, the raise) leaves every agent's resources,
\* budget, reputation table and deal history as they were; message logs and
\* the strategies' own state are all it may change.
C12_NegotiateFrame ==
    last_op \in {"open", "raise", "seller", "buyer", "timeout"} =>
        /\ DOMAIN agents = DOMAIN pre_agents
        /\ \A a \in DOMAIN agents :
               /\ agents[a].resources = pre_agents[a].resources
               /\ agents[a].budget = pre_agents[a].budget
               /\ agents[a].reputation_table = pre_agents[a].reputation_table
               /\ agents[a].deals = pre_agents[a].deals
               /\ agents[a].pending_needs = pre_agents[a].pending_needs

\* a buyer's turn has just closed a negotiation with a REJECT, having changed
\* the buyer's message log and nothing the settlement owns
C12_Witness ==
    /\ last_op = "buyer"
    /\ pc = "settle"
    /\ neg.messages[Len(neg.messages)].msg_type = "REJECT"
    /\ Len(agents[neg.buyer].message_log) > Len(pre_agents[neg.buyer].message_log)
    /\ agents[neg.buyer].deals = <<>>
    /\ agents[neg.buyer].reputation_table = EmptyDict

(***************************************************************************)
(* What settlement records (Spec)                                          *)
(***************************************************************************)
\* the score of agent a for peer other_id before the last step, 1/2 when
\* there was no entry
PreviousScore(a, other_id) ==
    IF other_id \in DOMAIN pre_agents[a].reputation_table
    THEN pre_agents[a].reputation_table[other_id]
    ELSE <<1, 2>>

\* score is previous + num/10, kept within [0, 1]
ScoreMovedBy(score, previous, num) ==
    LET n == 10 * previous[1] + num * previous[2]
        d == 10 * previous[2]
    IN IF n >= d THEN score = <<1, 1>>
       ELSE IF n <= 0 THEN score = <<0, 1>>
       ELSE score[1] * d = n * score[2]

\* agent a recorded exactly one deal with other_id in the last step, and
\* changed its score for other_id alone
RecordedOne(a, other_id, fulfilled) ==
    /\ agents[a].deals =
           Append(pre_agents[a].deals,
                  [partner_id |-> other_id, resource |-> result.resource,
                   price |-> result.price, round_num |-> round_num,
                   fulfilled |-> fulfilled])
    /\ DOMAIN agents[a].reputation_table =
           DOMAIN pre_agents[a].reputation_table \cup {other_id}
    /\ \A x \in DOMAIN pre_agents[a].reputation_table \ {other_id} :
           agents[a].reputation_table[x] = pre_agents[a].reputation_table[x]

\* C13: when a deal between two parties is settled, each of them appends
\* exactly one Deal with fulfilled = true, the other as partner, the agreed
\* resource and price and the current round number, and each one's score for
\* the other becomes min(1, previous + 0.1), previous being 0.5 for a peer
\* not seen before.
C13_SettledDealRecorded ==
    (last_op = "settled" /\ result.buyer_id # result.seller_id) =>
        LET b == result.buyer_id
            s == result.seller_id
        IN /\ RecordedOne(b, s, TRUE)
           /\ RecordedOne(s, b, TRUE)
           /\ ScoreMovedBy(agents[b].reputation_table[s], PreviousScore(b, s), 1)
           /\ ScoreMovedBy(agents[s].reputation_table[b], PreviousScore(s, b), 1)

\* a deal has just been settled between a buyer that had not seen the seller
\* before and a seller whose score for the buyer was already above 0.9
C13_Witness ==
    /\ last_op = "settled"
    /\ result.buyer_id # result.seller_id
    /\ \E x \in {result.buyer_id, result.seller_id},
          y \in {result.buyer_id, result.seller_id} :
           /\ x # y
           /\ y \in DOMAIN pre_agents[x].reputation_table
           /\ 10 * pre_agents[x].reputation_table[y][1]
                  > 9 * pre_agents[x].reputation_table[y][2]
           /\ agents[x].reputation_table[y] = <<1, 1>>

\* C14: when the settlement check fails the result is marked not agreed and
\* kept once, the buyer alone appends one Deal with fulfilled = false and the
\* buyer's score for the seller becomes max(0, previous - 0.3); the seller's
\* deal history and reputation table are as they were, whichever check
\* failed; the round moves on to the next pair.
C14_DefaultRecorded ==
    last_op = "defaulted" =>
        LET b == result.buyer_id
            s == result.seller_id
        IN /\ ~result.agreed
           /\ pc = "loop"
           /\ round_results[Len(round_results)] = result
           /\ RecordedOne(b, s, FALSE)
           /\ ScoreMovedBy(agents[b].reputation_table[s], PreviousScore(b, s), -3)
           /\ b # s => /\ agents[s].deals = pre_agents[s].deals
                       /\ agents[s].reputation_table = pre_agents[s].reputation_table
           /\ \A a \in DOMAIN agents \ {b} : agents[a] = pre_agents[a]

\* a deal has just fallen through because the buyer could not pay, and the
\* buyer's score for the seller, below 0.3 before, is now 0
C14_Witness ==
    /\ last_op = "defaulted"
    /\ result.buyer_id # result.seller_id
    /\ can_afford(agents[result.seller_id].resources, result.resource)
    /\ result.seller_id \in DOMAIN pre_agents[result.buyer_id].reputation_table
    /\ pre_agents[result.buyer_id].reputation_table[result.seller_id] = <<1, 5>>
    /\ agents[result.buyer_id].reputation_table[result.seller_id] = <<0, 1>>


(***************************************************************************)
(* C15: in a TrustSimulator with one marked cheater whose Cheater strategy *)
(* has cheat_probability 1, the default log holds exactly one entry per    *)
(* agreed negotiation the cheater took part in as buyer or seller, each    *)
(* entry names the cheater, and no step raises the score any agent keeps   *)
(* for the cheater.                                                        *)
(***************************************************************************)
C15_AlwaysCheats(c) ==
    /\ cheater_ids = {c}
    /\ c \in DOMAIN agents
    /\ agents[c].strategy.kind = "cheater"
    /\ agents[c].strategy.cheat_probability = ROne

C15_EveryDealDefaults ==
    \A c \in AgentIds :
        C15_AlwaysCheats(c) =>
            /\ Len(default_log) = agreed_with_cheater
            /\ \A i \in 1..Len(default_log) : default_log[i].cheater = c
            /\ \A v \in DOMAIN agents :
                   RLe(reputation_of(agents[v], c), reputation_of(pre_agents[v], c))

C15_Witness ==
    /\ C15_AlwaysCheats("a3")
    /\ last_op = "cheated"
    /\ Len(default_log) >= 2
    /\ default_log[1].victim # default_log[2].victim
    /\ result.buyer_id = "a3"
    /\ result.seller_id = "a1"
    /\ RLt(reputation_of(agents["a1"], "a3"), reputation_of(pre_agents["a1"], "a3"))


(***************************************************************************)
(* C16 (as stated): from the 0.5 baseline of an unseen peer, a run of      *)
(* unfulfilled deals recorded through record_deal leaves the stored score  *)
(* above the floor 0 as long as the run is shorter than 17.                *)
(* C16 (amended): the run stores 0.2 after the first unfulfilled deal and  *)
(* the floor 0 after the second and every later one.                       *)
(***************************************************************************)
RECURSIVE C16_Replay(_, _)
C16_Replay(agent, deals) ==
    IF deals = <<>> THEN agent
    ELSE C16_Replay(record_deal(agent, Head(deals)), Tail(deals))

\* a1 has seen nothing but a run of unfulfilled deals with peer other_id
C16_PenaltyRun(other_id) ==
    /\ last_op = "record_deal"
    /\ agents["a1"].deals # <<>>
    /\ \A i \in 1..Len(agents["a1"].deals) :
           /\ agents["a1"].deals[i].partner_id = other_id
           /\ ~agents["a1"].deals[i].fulfilled
    /\ agents["a1"] = C16_Replay(NewAgent("a1", Resource0, RZero, "fair"),
                                 agents["a1"].deals)

C16_FloorAfterSeventeen ==
    \A other_id \in Peers :
        C16_PenaltyRun(other_id) /\ Len(agents["a1"].deals) < 17 =>
            RLt(RZero, reputation_of(agents["a1"], other_id))

C16_FloorAfterTwo ==
    \A other_id \in Peers :
        C16_PenaltyRun(other_id) =>
            /\ other_id \in DOMAIN agents["a1"].reputation_table
            /\ agents["a1"].reputation_table[other_id] =
                   IF Len(agents["a1"].deals) = 1 THEN R(1, 5) ELSE RZero

C16_Witness ==
    /\ C16_PenaltyRun("a2")
    /\ Len(agents["a1"].deals) = 2
    /\ reputation_of(pre_agents["a1"], "a2") = R(1, 5)
    /\ agents["a1"].reputation_table["a2"] = RZero


(***************************************************************************)
(* C17: an Adaptive strategy handed k consecutive REJECT messages ends     *)
(* with the belief it had before them multiplied by 0.95^k; each REJECT    *)
(* multiplies the belief by 0.95, produces no reply and leaves the history *)
(* list as it was.                                                         *)
(***************************************************************************)
RECURSIVE C17_Power(_, _)
C17_Power(r, k) == IF k = 0 THEN ROne ELSE RMul(r, C17_Power(r, k - 1))

\* the length of the run of REJECTs that ends the log
RECURSIVE C17_Trailing(_)
C17_Trailing(log) ==
    IF log = <<>> \/ log[Len(log)].msg_type # "REJECT" THEN 0
    ELSE 1 + C17_Trailing(SubSeq(log, 1, Len(log) - 1))

\* the agent after it has received the messages of log, one by one
RECURSIVE C17_After(_, _, _)
C17_After(agent, log, id) ==
    IF log = <<>> THEN agent
    ELSE C17_After(receive(agent, Head(log), id).agent, Tail(log), id + 1)

C17_RejectsDecayBelief ==
    LET log == agents["a1"].message_log
        k == C17_Trailing(log)
        before == C17_After(AdaptAgent, SubSeq(log, 1, Len(log) - k), 1)
        st == agents["a1"].strategy
    IN /\ st.price_belief =
              RMul(before.strategy.price_belief, C17_Power(R(19, 20), k))
       /\ st.history = before.strategy.history
       /\ (k = Len(log) => st.price_belief = C17_Power(R(19, 20), k))
       /\ (k >= 1 =>
              /\ IsNone(receive(pre_agents["a1"], log[Len(log)], next_id - 1).reply)
              /\ st.price_belief =
                     RMul(pre_agents["a1"].strategy.price_belief, R(19, 20))
              /\ st.history = pre_agents["a1"].strategy.history)

C17_Witness ==
    /\ last_op = "receive"
    /\ Len(agents["a1"].message_log) = 3
    /\ agents["a1"].message_log[1].msg_type = "ACCEPT"
    /\ C17_Trailing(agents["a1"].message_log) = 2
    /\ agents["a1"].strategy.history = <<RInt(2)>>
    /\ agents["a1"].strategy.price_belief = R(1083, 1000)


(***************************************************************************)
(* C18: when _negotiate returns an agreed result, each Adaptive party,     *)
(* buyer or seller, whether it issued the ACCEPT or had its own proposal   *)
(* accepted, has had its belief updated exactly once:                      *)
(* belief += learning_rate x (price / total_units - belief).               *)
(* Every negotiation of SpecNeg starts from strategies as constructed      *)
(* (belief price_belief0, empty history).                                  *)
(***************************************************************************)
C18_UpdatedOnce(st, res) ==
    LET per_unit == RDiv(res.price, RInt(total_units(res.resource)))
    IN /\ st.history = <<per_unit>>
       /\ st.price_belief =
              RAdd(price_belief0, RMul(learning_rate, RSub(per_unit, price_belief0)))

C18_EveryAdaptivePartyUpdated ==
    (pc = "settle" /\ result.agreed) =>
        \A p \in {result.buyer_id, result.seller_id} :
            agents[p].strategy.kind = "adaptive" =>
                C18_UpdatedOnce(agents[p].strategy, result)


(***************************************************************************)
(* C19: when run_round is called with a pairings list, of any length and   *)
(* the empty list included, the round negotiates and settles exactly the   *)
(* pairs of the list, once each and in list order, and the negotiation     *)
(* count of the round is the length of the list.  (A round cut short by    *)
(* the RuntimeError of a buyer without strategy is left aside.)            *)
(***************************************************************************)
\* the pairs this round has negotiated so far, the one in progress included
C19_PairsStarted ==
    LET done == [i \in 1..Len(round_results) |->
                    <<round_results[i].buyer_id, round_results[i].seller_id>>]
        current == IF pc = "settle" THEN <<<<result.buyer_id, result.seller_id>>>>
                   ELSE IF pc \in {"seller", "buyer"} THEN <<<<neg.buyer, neg.seller>>>>
                   ELSE <<>>
    IN done \o current

C19_ExplicitPairingsRun ==
    (pairings_arg.given /\ pc # "error") =>
        /\ Len(C19_PairsStarted) <= Len(pairings_arg.value)
        /\ C19_PairsStarted = SubSeq(pairings_arg.value, 1, Len(C19_PairsStarted))
        /\ last_op = "end_round" =>
               /\ Len(C19_PairsStarted) = Len(pairings_arg.value)
               /\ metrics[Len(metrics)].negotiations = Len(pairings_arg.value)


(***************************************************************************)
(* C20: in a round that pairs at random, every agent with a pending need   *)
(* negotiates exactly once as buyer, in agent order (never, when it is the *)
(* only agent); its seller is never itself and has no pending need when    *)
(* some agent has none; an agent without need never buys; when every agent *)
(* has a need, every other agent is a candidate seller.  (A round cut      *)
(* short by the RuntimeError of a buyer without strategy is left aside.)   *)
(***************************************************************************)
C20_HasNeed(a) == total_units(agents[a].pending_needs) > 0

C20_Idle == {a \in DOMAIN agents : ~C20_HasNeed(a)}

\* the negotiations this round has started so far, as <<buyer, seller>>
C20_Started ==
    LET done == [i \in 1..Len(round_results) |->
                    <<round_results[i].buyer_id, round_results[i].seller_id>>]
        current == IF pc = "settle" THEN <<<<result.buyer_id, result.seller_id>>>>
                   ELSE IF pc \in {"seller", "buyer"} THEN <<<<neg.buyer, neg.seller>>>>
                   ELSE <<>>
    IN done \o current

C20_RandomPairing ==
    (mode = "random" /\ round_num > 0 /\ pc # "error") =>
        LET started == C20_Started
            buyers == [i \in 1..Len(started) |-> started[i][1]]
            needy == SelectSeq(agent_list, C20_HasNeed)
        IN /\ \A i \in 1..Len(started) :
                  /\ started[i][1] # started[i][2]
                  /\ C20_HasNeed(started[i][1])
                  /\ C20_Idle # {} => started[i][2] \in C20_Idle
           /\ IF Cardinality(DOMAIN agents) > 1
              THEN buyers \o (IF pc = "idle" THEN <<>> ELSE queue) = needy
              ELSE started = <<>>
           /\ (pc = "loop" /\ queue # <<>>) =>
                  available(Head(queue)) =
                      IF C20_Idle # {} THEN C20_Idle
                      ELSE DOMAIN agents \ {Head(queue)}
           /\ last_op = "end_round" =>
                  metrics[Len(metrics)].negotiations = Len(started)

\* every agent had a need; the three of them negotiated once each and the
\* first buyer was the seller of a later negotiation
C20_Witness ==
    /\ mode = "random"
    /\ last_op = "end_round"
    /\ C20_Idle = {}
    /\ Len(round_results) = 3
    /\ round_results[1].buyer_id = "a1"
    /\ round_results[2].buyer_id = "a2"
    /\ round_results[3].buyer_id = "a3"
    /\ round_results[2].seller_id = "a1"


(***************************************************************************)
(* C21: the RoundMetrics of a round of the base Simulator.  negotiations   *)
(* is the number of pairs run; deals_made is the number of them that       *)
(* settled (an agreement that failed at settlement is not counted), so     *)
(* deals_made <= negotiations; total_volume and total_currency are the     *)
(* units and the currency the settlements of the round moved, as the       *)
(* agents' deal records of the round show (each settlement is recorded     *)
(* once by the buyer and once by the seller); avg_price_per_unit is        *)
(* total_currency / total_volume, or 0 without volume; the two snapshots   *)
(* cover every agent with its end-of-round budget and resource total.      *)
(***************************************************************************)
\* the deals agent a recorded in the current round, fulfilled or failed
C21_Records(a, fulfilled) ==
    LET Mine(d) == d.round_num = round_num /\ d.fulfilled = fulfilled
    IN SelectSeq(agents[a].deals, Mine)

RECURSIVE C21_Count(_, _)
C21_Count(ids, fulfilled) ==
    IF ids = <<>> THEN 0
    ELSE Len(C21_Records(Head(ids), fulfilled)) + C21_Count(Tail(ids), fulfilled)

RECURSIVE C21_Units(_)
C21_Units(ids) ==
    IF ids = <<>> THEN 0
    ELSE LET Units(d) == total_units(d.resource)
         IN SumInt(C21_Records(Head(ids), TRUE), Units, 1) + C21_Units(Tail(ids))

RECURSIVE C21_Currency(_)
C21_Currency(ids) ==
    IF ids = <<>> THEN RZero
    ELSE LET Price(d) == d.price
         IN RAdd(SumRat(C21_Records(Head(ids), TRUE), Price, 1),
                 C21_Currency(Tail(ids)))

C21_RoundMetrics ==
    last_op = "end_round" =>
        LET m == metrics[Len(metrics)]
        IN /\ m.round_num = round_num
           /\ m.negotiations = Len(round_results)
           /\ 2 * m.deals_made = C21_Count(agent_list, TRUE)
           /\ m.deals_made + C21_Count(agent_list, FALSE) <= m.negotiations
           /\ 2 * m.total_volume = C21_Units(agent_list)
           /\ RMul(RInt(2), m.total_currency) = C21_Currency(agent_list)
           /\ m.avg_price_per_unit =
                  IF m.total_volume > 0
                  THEN RDiv(m.total_currency, RInt(m.total_volume))
                  ELSE RZero
           /\ DOMAIN m.agent_budgets = DOMAIN agents
           /\ DOMAIN m.agent_resources = DOMAIN agents
           /\ \A a \in DOMAIN agents :
                  /\ m.agent_budgets[a] = agents[a].budget
                  /\ m.agent_resources[a] = total_units(agents[a].resources)

\* a round of two negotiations: the first settled, the second was agreed
\* and failed at settlement
C21_Witness ==
    /\ last_op = "end_round"
    /\ Len(round_results) = 2
    /\ round_results[1].agreed
    /\ ~round_results[2].agreed
    /\ round_results[2].resource # None
    /\ metrics[Len(metrics)].deals_made = 1
    /\ metrics[Len(metrics)].total_volume = 5


(***************************************************************************)
(* C22: every completed run_round raises the round number by one and       *)
(* appends one RoundMetrics and one audit record carrying that number:     *)
(* between rounds the metrics list and the audit log have length round_num *)
(* and carry the numbers 1..round_num in order, and inside a round they    *)
(* are one short.  When run(rounds) returns it has performed exactly       *)
(* rounds rounds and its list holds their metrics in order.  (A round cut  *)
(* short by an exception is not a completed round.)                        *)
(***************************************************************************)
C22_RoundsNumbered ==
    pc # "error" =>
        LET completed == IF pc = "idle" THEN round_num ELSE round_num - 1
        IN /\ Len(metrics) = completed
           /\ Len(full_log) = completed
           /\ \A i \in 1..completed :
                  /\ metrics[i].round_num = i
                  /\ full_log[i].round = i
           /\ run_call.status = "returned" =>
                  /\ round_num = run_call.start + run_call.rounds
                  /\ Len(run_call.all_metrics) = run_call.rounds
                  /\ run_call.all_metrics =
                         SubSeq(metrics, run_call.start + 1, round_num)

\* a second call of run has returned the metrics of round 2 alone
C22_Witness ==
    /\ last_op = "return"
    /\ run_call.status = "returned"
    /\ run_call.start = 1
    /\ run_call.rounds = 1
    /\ Len(run_call.all_metrics) = 1
    /\ run_call.all_metrics[1].round_num = 2
    /\ run_call.all_metrics[1].negotiations > 0


(***************************************************************************)
(* C23 (as stated): for all resource vectors a and b, (a + b) - b equals a *)
(* in every dimension, and neither a nor b is modified by add, subtract    *)
(* or scale.                                                               *)
(* C23 (amended): (a + b) - b equals a up to the rounding of the two       *)
(* float operations: in every dimension the difference is at most one unit *)
(* in the last place of a + b, and it is zero when the sum a + b is        *)
(* computed without rounding; add, subtract and scale return a new vector  *)
(* and leave their operands as they were.                                  *)
(***************************************************************************)
\* object k is (a + b) - b for a = object i and b = object j
C23_RoundTrip(k, i, j) ==
    /\ origin[k].op = "sub"
    /\ origin[k].right = j
    /\ origin[origin[k].left].op = "add"
    /\ origin[origin[k].left].left = i
    /\ origin[origin[k].left].right = j

\* every object still has the value its origin gives it: no later call has
\* changed an operand or a result
C23_NothingModified ==
    \A k \in 1..Len(heap) :
        LET o == origin[k]
        IN CASE o.op = "given" ->
                    \/ heap[k] \in {ResObj(a) : a \in ResourceInputs}
                    \/ heap[k] \in {DictObj(d) : d \in DictInputs}
             [] o.op = "add" ->
                    heap[k] = ResObj(Resource__add__(heap[o.left].value, heap[o.right].value))
             [] o.op = "sub" ->
                    heap[k] = ResObj(Resource__sub__(heap[o.left].value, heap[o.right].value))
             [] o.op = "mul" ->
                    heap[k] = ResObj(Resource__mul__(heap[o.left].value, o.scalar))
             [] OTHER -> TRUE

C23_AddSubExact ==
    /\ \A k \in Resources, i \in Resources, j \in Resources :
           C23_RoundTrip(k, i, j) => Resource__eq__(heap[k].value, heap[i].value)
    /\ C23_NothingModified

C23_AddSubWithinRounding ==
    /\ \A k \in Resources, i \in Resources, j \in Resources :
           C23_RoundTrip(k, i, j) =>
               \A dim \in 1..3 :
                   LET a == heap[i].value[dim].v
                       b == heap[j].value[dim].v
                       sum == heap[origin[k].left].value[dim].v
                       back == heap[k].value[dim].v
                       ulp == RDiv(RAbs(sum), RInt(Pow2(FloatPrecision - 1)))
                   IN /\ RLe(RAbs(RSub(back, a)), ulp)
                      /\ sum = RAdd(a, b) => back = a
    /\ C23_NothingModified

\* 1 + 10 rounds to 12 with three significant bits, and 12 - 10 is 2
C23_Witness ==
    /\ Len(heap) = 5
    /\ C23_RoundTrip(5, 1, 2)
    /\ heap[1].value[1].v = ROne
    /\ heap[2].value[1].v = RInt(10)
    /\ heap[4].value[1].v = RInt(12)
    /\ heap[5].value[1].v = RInt(2)
    /\ heap[5].value[3].v = heap[1].value[3].v


(***************************************************************************)
(* C24: from_dict(to_dict(r)) equals r for every resource vector r;        *)
(* from_dict of a mapping takes each of gpu_hours, cpu_hours and           *)
(* memory_gb_hours from the mapping when the key is there and yields 0     *)
(* for it when it is not, whatever other keys the mapping has, so          *)
(* from_dict of the empty mapping is the zero vector.                      *)
(***************************************************************************)
C24_Keys == <<"gpu_hours", "cpu_hours", "memory_gb_hours">>

C24_FromDictLenient ==
    \A k \in Resources :
        origin[k].op = "from_dict" =>
            LET d == heap[origin[k].left].value
            IN /\ \A dim \in 1..3 :
                      IF C24_Keys[dim] \in DOMAIN d
                      THEN heap[k].value[dim] = d[C24_Keys[dim]]
                      ELSE num_eq(heap[k].value[dim], PyFloat(RZero))
               /\ d = EmptyDict =>
                      Resource__eq__(heap[k].value,
                                     <<PyFloat(RZero), PyFloat(RZero), PyFloat(RZero)>>)
               /\ origin[origin[k].left].op = "to_dict" =>
                      /\ heap[k].value = heap[origin[origin[k].left].left].value
                      /\ Resource__eq__(heap[k].value,
                                        heap[origin[origin[k].left].left].value)

\* a vector with a fractional quantity went through to_dict and from_dict
C24_Witness ==
    /\ Len(heap) = 5
    /\ origin[4].op = "to_dict"
    /\ origin[4].left = 1
    /\ origin[5].op = "from_dict"
    /\ origin[5].left = 4
    /\ heap[1].value[1].v = R(3, 4)
    /\ heap[5].value[1].v = R(3, 4)
    /\ heap[5].value[3].v = RInt(10)


(***************************************************************************)
(* C25: an agent whose strategy is a ReputationAwareStrategy never ends in *)
(* an agreed and executed deal with a peer whose score in the agent's own  *)
(* reputation table was below the trust threshold when the negotiation     *)
(* started, whether the agent bought or sold.  A negotiation leaves the    *)
(* tables alone, so the score at its start is the score pre_agents holds   *)
(* when the deal is executed.                                              *)
(***************************************************************************)
C25_BelowThreshold(p, q) ==
    /\ pre_agents[p].strategy.wrapped
    /\ RLt(reputation_of(pre_agents[p], q), pre_agents[p].strategy.trust_threshold)

C25_NoDealBelowThreshold ==
    (last_op = "settled" /\ pc = "loop" /\ result.agreed) =>
        /\ ~C25_BelowThreshold(result.buyer_id, result.seller_id)
        /\ ~C25_BelowThreshold(result.seller_id, result.buyer_id)



(***************************************************************************)
(* The opening message of a negotiation trail (SpecNeg)                    *)
(***************************************************************************)
C26_Opened == neg.messages # <<>>

C26_First == neg.messages[1]

C26_FromBuyerToSeller ==
    /\ C26_First.sender_id = neg.buyer
    /\ C26_First.receiver_id = neg.seller
    /\ C26_First.reply_to = 0

C26_IsRequest ==
    /\ C26_First.msg_type = "REQUEST"
    /\ DOMAIN C26_First.payload = {"resource", "max_price", "urgency"}
    /\ C26_First.payload["resource"] = to_dict(neg.need)
    /\ from_dict(C26_First.payload["resource"]) = neg.need
    /\ RGe(C26_First.payload["max_price"], RZero)
    /\ RGe(C26_First.payload["urgency"], RZero)

C27_Reasons ==
    {"insufficient_resources", "too_expensive", "cannot_afford", "not_profitable",
     "low_reputation", "waiting_for_better", "no_resources_but_tracking"}

C27_CheaterReasons == {"not_enough", "too_much"}

C27_RejectsCarry(codes) ==
    \A i \in 1..Len(neg.messages) :
        neg.messages[i].msg_type = "REJECT" =>
            /\ "reason" \in DOMAIN neg.messages[i].payload
            /\ neg.messages[i].payload["reason"] \in codes

\* decide reads payload["resource"] of a REQUEST, OFFER or COUNTER with a
\* subscript, which raises KeyError when the key is missing; every other
\* read is a get with a default
C27_NothingToRaise ==
    /\ pc # "error"
    /\ \A i \in 1..Len(neg.messages) :
           neg.messages[i].msg_type \in {"REQUEST", "OFFER", "COUNTER"} =>
               "resource" \in DOMAIN neg.messages[i].payload

\* C27 as stated: every REJECT any strategy variant produces carries a
\* reason code of the fixed set of seven, and no strategy raises on a
\* message of an engine-run negotiation.
C27_RejectReasonsFixed ==
    C27_RejectsCarry(C27_Reasons) /\ C27_NothingToRaise

\* C27, amended: every REJECT carries a reason code; the code is one of the
\* seven unless the sender is a Cheater, whose codes are not_enough (to a
\* REQUEST) and too_much (to an OFFER or COUNTER); and no strategy raises
\* on a message of an engine-run negotiation.
C27_RejectReasonsWithCheater ==
    /\ C27_RejectsCarry(C27_Reasons \cup C27_CheaterReasons)
    /\ \A i \in 1..Len(neg.messages) :
           (/\ neg.messages[i].msg_type = "REJECT"
            /\ neg.messages[i].payload["reason"] \in C27_CheaterReasons) =>
               /\ i > 1
               /\ agents[neg.messages[i].sender_id].strategy.kind = "cheater"
               /\ neg.messages[i].payload["reason"] =
                      IF neg.messages[i - 1].msg_type = "REQUEST"
                      THEN "not_enough" ELSE "too_much"
    /\ C27_NothingToRaise

\* a Cheater seller has just turned down a Greedy buyer's REQUEST
C27_Witness ==
    /\ last_op = "seller"
    /\ Len(neg.messages) = 2
    /\ neg.messages[2].msg_type = "REJECT"
    /\ neg.messages[2].payload = [reason |-> "not_enough"]
    /\ agents[neg.buyer].strategy.kind = "greedy"



(***************************************************************************)
(* C28: in a negotiation trail an ACCEPT or REJECT is the last message.    *)
(* Once a party has answered ACCEPT or REJECT, or has given no reply,      *)
(* _negotiate returns: no receive is called any more (no message_log       *)
(* grows) and nothing is appended to the trail.  The result it returns is  *)
(* agreed exactly when the last message of the trail is an ACCEPT, and a   *)
(* missing reply gives a result that is not agreed.                        *)
(***************************************************************************)
C28_Closing == {"ACCEPT", "REJECT"}

C28_Last(trail) == trail[Len(trail)]

C28_ClosingOnlyLast ==
    /\ \A i \in 1..(Len(neg.messages) - 1) :
           neg.messages[i].msg_type \notin C28_Closing
    /\ pc \in {"seller", "buyer"} =>
           C28_Last(neg.messages).msg_type \notin C28_Closing

\* the result as _negotiate returns it
C28_Returned ==
    pc = "settle" =>
        /\ result.messages = neg.messages
        /\ result.agreed <=> C28_Last(result.messages).msg_type = "ACCEPT"
        /\ C28_Last(result.messages).msg_type \notin C28_Closing =>
               /\ ~result.agreed
               /\ result.resource = None
               /\ result.rounds = neg.turns

C28_NothingAfterReturn ==
    pc = "settle" =>
        /\ neg' = neg
        /\ \A a \in DOMAIN agents : agents'[a].message_log = agents[a].message_log

C28_ClosingReplyEndsTrail ==
    /\ [](C28_ClosingOnlyLast /\ C28_Returned)
    /\ [][C28_NothingAfterReturn]_vars

\* the buyer has answered a COUNTER with ACCEPT and _negotiate has returned
C28_Witness ==
    /\ pc = "settle"
    /\ last_op = "buyer"
    /\ Len(result.messages) >= 3
    /\ C28_Last(result.messages).msg_type = "ACCEPT"
    /\ result.agreed



(***************************************************************************)
(* C29: in a negotiation trail every message after the first is a reply to *)
(* the one before it: its reply_to is that message's id, its sender that   *)
(* message's receiver and its receiver that message's sender, so that the  *)
(* senders alternate seller, buyer, seller, ... after the buyer's opening; *)
(* and building a reply leaves the answered message as it was, in the      *)
(* trail and in the log of the agent that received it.                     *)
(***************************************************************************)
C29_Threaded ==
    /\ neg.messages # <<>> =>
           /\ neg.messages[1].sender_id = neg.buyer
           /\ neg.messages[1].reply_to = 0
    /\ \A i \in 2..Len(neg.messages) :
           /\ neg.messages[i].reply_to = neg.messages[i - 1].msg_id
           /\ neg.messages[i].msg_id # neg.messages[i - 1].msg_id
           /\ neg.messages[i].sender_id = neg.messages[i - 1].receiver_id
           /\ neg.messages[i].receiver_id = neg.messages[i - 1].sender_id
           /\ neg.messages[i].sender_id =
                  IF i % 2 = 0 THEN neg.seller ELSE neg.buyer

C29_Receiver == IF pc = "seller" THEN neg.seller ELSE neg.buyer

C29_AnsweredKept ==
    (pc \in {"seller", "buyer"} /\ last_op' \in {"seller", "buyer"}) =>
        /\ Len(neg'.messages) >= Len(neg.messages)
        /\ \A i \in 1..Len(neg.messages) : neg'.messages[i] = neg.messages[i]
        /\ LET log == agents'[C29_Receiver].message_log
           IN /\ Len(log) = Len(agents[C29_Receiver].message_log) + 1
              /\ log[Len(log)] = neg.messages[Len(neg.messages)]

C29_RepliesAreThreaded ==
    /\ []C29_Threaded
    /\ [][C29_AnsweredKept]_vars

\* a trail of four messages: the opening, the seller's COUNTER, the buyer's
\* COUNTER and the seller's answer to it
C29_Witness ==
    /\ Len(neg.messages) >= 4
    /\ neg.messages[2].msg_type = "COUNTER"
    /\ neg.messages[3].msg_type = "COUNTER"
    /\ neg.messages[4].sender_id = neg.seller
    /\ neg.buyer # neg.seller



(***************************************************************************)
(* C30: a Patient strategy answers an OFFER or COUNTER without countering. *)
(* It adds one to rounds_waited, then answers ACCEPT exactly when          *)
(*   price <= units x (1 - 0.3 x patience) x (1 + 0.05 x rounds_waited)    *)
(* and budget >= price, setting rounds_waited back to 0; otherwise it      *)
(* answers REJECT with waiting_for_better.  The threshold thus grows by 5% *)
(* of the base target with each offer refused since the last acceptance,   *)
(* and a negotiation with a Patient buyer ends within one turn.            *)
(***************************************************************************)
C30_Party == IF last_op = "buyer" THEN neg.buyer ELSE neg.seller

C30_Offer ==
    agents[C30_Party].message_log[Len(agents[C30_Party].message_log)]

C30_PatientAnswered ==
    /\ last_op \in {"buyer", "seller"}
    /\ agents[C30_Party].strategy.kind = "patient"
    /\ C30_Offer.msg_type \in {"OFFER", "COUNTER"}

C30_Units ==
    LET d == C30_Offer.payload["resource"]
    IN d["gpu_hours"] + d["cpu_hours"] + d["memory_gb_hours"]

C30_BaseTarget ==
    RMul(RInt(C30_Units), RSub(ROne, RMul(R(3, 10), patience)))

C30_Threshold(waited) ==
    RMul(C30_BaseTarget, RAdd(ROne, RMul(R(1, 20), RInt(waited))))

C30_PatientNeverCounters ==
    /\ C30_PatientAnswered =>
           LET before == pre_agents[C30_Party]
               after == agents[C30_Party]
               waited == before.strategy.rounds_waited + 1
               price == C30_Offer.payload["price"]
               answer == neg.messages[Len(neg.messages)]
               accepts == /\ RLe(price, C30_Threshold(waited))
                          /\ RGe(before.budget, price)
           IN /\ answer.reply_to = C30_Offer.msg_id
              /\ answer.sender_id = C30_Party
              /\ answer.msg_type = IF accepts THEN "ACCEPT" ELSE "REJECT"
              /\ accepts =>
                     /\ after.strategy.rounds_waited = 0
                     /\ answer.payload =
                            [resource |-> C30_Offer.payload["resource"],
                             price |-> price]
              /\ ~accepts =>
                     /\ after.strategy.rounds_waited = waited
                     /\ answer.payload = [reason |-> "waiting_for_better"]
              /\ RSub(C30_Threshold(waited + 1), C30_Threshold(waited))
                     = RMul(R(1, 20), C30_BaseTarget)
              /\ pc = "settle"
    /\ (pc = "settle" /\ agents[result.buyer_id].strategy.kind = "patient") =>
           /\ result.rounds <= 1
           /\ Len(result.messages) <= 3

\* a Patient buyer that had refused offers before accepts a COUNTER it would
\* have refused with a fresh counter
C30_Witness ==
    /\ C30_PatientAnswered
    /\ last_op = "buyer"
    /\ neg.messages[Len(neg.messages)].msg_type = "ACCEPT"
    /\ pre_agents[neg.buyer].strategy.rounds_waited > 0
    /\ agents[neg.buyer].strategy.rounds_waited = 0
    /\ ~RLe(C30_Offer.payload["price"], C30_Threshold(1))



(***************************************************************************)
(* C31: a negotiation opened by a Broker buyer is a no-op.  Against a      *)
(* Greedy, Fair, Patient, Adaptive or Broker seller the QUERY_REPUTATION   *)
(* opening gets no reply; the result is not agreed, counts 0 turns and its *)
(* trail holds the opening only; and the settlement leaves resources,      *)
(* budgets, reputation tables and deal histories as they were.             *)
(***************************************************************************)
C31_Core == {"greedy", "fair", "patient", "adaptive", "broker"}

C31_BrokerOpened ==
    /\ neg.messages # <<>>
    /\ agents[neg.buyer].strategy.kind = "broker"
    /\ agents[neg.seller].strategy.kind \in C31_Core

C31_Same(before, after) ==
    \A a \in DOMAIN after :
        /\ after[a].resources = before[a].resources
        /\ after[a].budget = before[a].budget
        /\ after[a].reputation_table = before[a].reputation_table
        /\ after[a].deals = before[a].deals

C31_BrokerOpeningIsNoOp ==
    C31_BrokerOpened =>
        /\ Len(neg.messages) = 1
        /\ neg.messages[1].msg_type = "QUERY_REPUTATION"
        /\ neg.turns = 0
        /\ pc \in {"seller", "settle", "loop", "idle"}
        /\ C31_Same(pre_agents, agents)
        /\ pc \in {"settle", "loop", "idle"} =>
               /\ ~result.agreed
               /\ result.rounds = 0
               /\ result.resource = None
               /\ result.messages = neg.messages
        /\ pc \in {"loop", "idle"} =>
               /\ round_results = <<result>>
               /\ \A a \in DOMAIN agents :
                      /\ agents[a].deals = <<>>
                      /\ agents[a].reputation_table = EmptyDict

\* the seller was handed the opening, gave no reply, and the result has
\* been through _execute_deal
C31_Witness ==
    /\ C31_BrokerOpened
    /\ agents[neg.seller].strategy.kind = "fair"
    /\ max_turns > 0
    /\ last_op = "no_deal"
    /\ Len(agents[neg.seller].message_log) = 1
    /\ agents[neg.seller].message_log[1].msg_type = "QUERY_REPUTATION"



(***************************************************************************)
(* C32: in the base Simulator an agent's score for a peer, and its deal    *)
(* history, change only while the result of a negotiation between the two  *)
(* that reached ACCEPT is settled.  A negotiation that ended in REJECT, in *)
(* a missing reply or at the turn cap changes no reputation table and no   *)
(* deal history.                                                           *)
(***************************************************************************)
C32_Peer(a) == IF a = result.buyer_id THEN result.seller_id ELSE result.buyer_id

\* an agent paired with itself is buyer and seller of the result and books
\* a settled deal once in each role
C32_Touched(a) ==
    \/ agents'[a].reputation_table # agents[a].reputation_table
    \/ agents'[a].deals # agents[a].deals

C32_OnlyPeerTouched(a) ==
    /\ \A q \in DOMAIN agents'[a].reputation_table :
           q # C32_Peer(a) =>
               /\ q \in DOMAIN agents[a].reputation_table
               /\ agents'[a].reputation_table[q] = agents[a].reputation_table[q]
    /\ DOMAIN agents[a].reputation_table \subseteq DOMAIN agents'[a].reputation_table
    /\ Len(agents'[a].deals) - Len(agents[a].deals) \in
           (IF result.buyer_id = result.seller_id THEN {1, 2} ELSE {1})
    /\ SubSeq(agents'[a].deals, 1, Len(agents[a].deals)) = agents[a].deals
    /\ \A i \in (Len(agents[a].deals) + 1)..Len(agents'[a].deals) :
           agents'[a].deals[i].partner_id = C32_Peer(a)

C32_Step ==
    \A a \in DOMAIN agents :
        C32_Touched(a) =>
            /\ pc = "settle"
            /\ result.agreed
            /\ result.messages[Len(result.messages)].msg_type = "ACCEPT"
            /\ a \in {result.buyer_id, result.seller_id}
            /\ C32_OnlyPeerTouched(a)

C32_ReputationOnlyFromSettledDeals == [][C32_Step]_vars

\* a negotiation that ended in REJECT after a COUNTER has been through
\* _execute_deal in the second round, after a settled deal in the first
C32_Witness ==
    /\ last_op = "no_deal"
    /\ round_num = 2
    /\ result.messages[Len(result.messages)].msg_type = "REJECT"
    /\ agents[result.buyer_id].deals # <<>>
    /\ agents = pre_agents



(***************************************************************************)
(* C33: across the rounds of a Simulator or a TrustSimulator, cheat paths  *)
(* included, the sum of all budgets and, per dimension, the sum of all     *)
(* holdings stay what they were at the start: every step that changes a    *)
(* budget or a holding moves the amount between two agents.                *)
(***************************************************************************)
C33_Ids == <<"a1", "a2", "a3">>

RECURSIVE C33_SumBudget(_, _)
C33_SumBudget(ags, n) ==
    IF n = 0 THEN RZero
    ELSE RAdd(C33_SumBudget(ags, n - 1),
              IF C33_Ids[n] \in DOMAIN ags THEN ags[C33_Ids[n]].budget ELSE RZero)

RECURSIVE C33_SumHeld(_, _, _)
C33_SumHeld(ags, d, n) ==
    IF n = 0 THEN 0
    ELSE C33_SumHeld(ags, d, n - 1)
         + (IF C33_Ids[n] \in DOMAIN ags THEN ags[C33_Ids[n]].resources[d] ELSE 0)

C33_Totals(ags) ==
    <<C33_SumBudget(ags, 3), C33_SumHeld(ags, 1, 3), C33_SumHeld(ags, 2, 3),
      C33_SumHeld(ags, 3, 3)>>

C34_Core == {"greedy", "fair", "patient", "adaptive", "broker"}

C34_CorePair ==
    /\ result.buyer_id \in DOMAIN agents
    /\ result.seller_id \in DOMAIN agents
    /\ agents[result.buyer_id].strategy.kind \in C34_Core
    /\ agents[result.seller_id].strategy.kind \in C34_Core

C34_Accepter == result.messages[Len(result.messages)].sender_id

C34_SellerHolds(ags) ==
    \A d \in 1..3 : ags[result.seller_id].resources[d] >= result.resource[d]

C34_BuyerCanPay(ags) == RGe(ags[result.buyer_id].budget, result.price)

C34_FailsOnlyOnBuyerBudget ==
    /\ (pc = "settle" /\ result.agreed /\ C34_CorePair) =>
           /\ C34_SellerHolds(agents)
           /\ C34_Accepter = result.buyer_id => C34_BuyerCanPay(agents)
           /\ ~C34_BuyerCanPay(agents) => C34_Accepter = result.seller_id
    /\ (last_op = "defaulted" /\ C34_CorePair) =>
           /\ C34_SellerHolds(pre_agents)
           /\ ~C34_BuyerCanPay(pre_agents)
           /\ C34_Accepter = result.seller_id
           /\ reputation_of(agents[result.buyer_id], result.seller_id) =
                  RMax(RZero,
                       RSub(reputation_of(pre_agents[result.buyer_id],
                                          result.seller_id), R(3, 10)))
    /\ (last_op \in {"settled", "no_deal"} /\ C34_CorePair) =>
           \A a \in DOMAIN agents, q \in DOMAIN agents :
               RGe(reputation_of(agents[a], q), reputation_of(pre_agents[a], q))

\* a Greedy seller accepted the opening REQUEST of a buyer whose budget is
\* below the price, and the settlement has failed
C34_Witness ==
    /\ last_op = "defaulted"
    /\ C34_CorePair
    /\ Len(result.messages) = 2
    /\ C34_SellerHolds(pre_agents)
    /\ RLt(pre_agents[result.buyer_id].budget, result.price)



(***************************************************************************)
(* C35: for every pair of Greedy, Fair, Patient, Adaptive and Broker, the  *)
(* price of a negotiation that ends in ACCEPT, in the first turn or in a   *)
(* later one, is at most the max_price of the buyer's opening REQUEST.     *)
(***************************************************************************)
C35_AgreedPriceWithinMax ==
    (/\ pc = "settle"
     /\ result.agreed
     /\ agents[result.buyer_id].strategy.kind \in C34_Core
     /\ agents[result.seller_id].strategy.kind \in C34_Core
     /\ result.messages[1].msg_type = "REQUEST") =>
        RLe(result.price, result.messages[1].payload["max_price"])



(***************************************************************************)
(* C36, as stated: the engine never hands an ACCEPT or REJECT to an agent. *)
(* Every message in every message log is an opening message (REQUEST, or   *)
(* the Broker's QUERY_REPUTATION) or a COUNTER; an Adaptive agent's price  *)
(* belief changes in a step only when that agent itself issued the ACCEPT  *)
(* that closes the trail, never through the ACCEPT or REJECT branch; and   *)
(* every strategy that is handed an ACCEPT or a REJECT directly returns no *)
(* reply.                                                                  *)
(***************************************************************************)
C36_Handed == {"REQUEST", "QUERY_REPUTATION", "COUNTER"}

C36_LogsHoldNoClosing ==
    \A a \in DOMAIN agents :
        \A i \in 1..Len(agents[a].message_log) :
            /\ agents[a].message_log[i].msg_type \in C36_Handed
            /\ agents[a].message_log[i].msg_type \notin {"ACCEPT", "REJECT"}

C36_ClosingMessages(a) ==
    {Message(t, sender, a, payload, 0) :
        t \in {"ACCEPT", "REJECT"},
        sender \in (DOMAIN agents \ {a}) \cup {"peer"},
        payload \in {DealPayload(<<5, 0, 0>>, RInt(10)),
                     Reason("too_expensive"), EmptyDict}}

C36_ClosingGetsNoReply ==
    \A a \in DOMAIN agents :
        agents[a].strategy.kind # "none" =>
            \A m \in C36_ClosingMessages(a) :
                IsNone(strategy_decide(agents[a], m, 0).reply)

C36_BeliefStep ==
    \A a \in DOMAIN agents :
        (/\ agents[a].strategy.kind = "adaptive"
         /\ agents'[a].strategy.price_belief # agents[a].strategy.price_belief) =>
            /\ last_op' \in {"seller", "buyer"}
            /\ LET last == neg'.messages[Len(neg'.messages)]
               IN /\ last.msg_type = "ACCEPT"
                  /\ last.sender_id = a

C36_Distrusts(a, sender) ==
    /\ agents[a].strategy.wrapped
    /\ RLt(reputation_of(agents[a], sender), agents[a].strategy.trust_threshold)

C36_ClosingReplyOnlyFromWrapper ==
    \A a \in DOMAIN agents :
        agents[a].strategy.kind # "none" =>
            \A m \in C36_ClosingMessages(a) :
                /\ IsNone(inner_decide(agents[a], m, 0).reply)
                /\ LET out == strategy_decide(agents[a], m, 0).reply
                   IN IF C36_Distrusts(a, m.sender_id)
                      THEN /\ out.msg_type = "REJECT"
                           /\ out.payload["reason"] = "low_reputation"
                      ELSE IsNone(out)

C37_NeedsKept ==
    \A a \in DOMAIN agents : agents'[a].pending_needs = agents[a].pending_needs

C37_OnlyNamed(needs) ==
    \A a \in DOMAIN agents :
        IF Truthy(needs) /\ a \in DOMAIN needs.value
        THEN agents'[a].pending_needs = needs.value[a]
        ELSE agents'[a].pending_needs = agents[a].pending_needs

C37_QueuedAsBuyers ==
    mode' = "random" =>
        \A a \in DOMAIN agents :
            (total_units(agents'[a].pending_needs) > 0)
                <=> (\E i \in 1..Len(queue') : queue'[i] = a)

C37_Step ==
    /\ DOMAIN agents' = DOMAIN agents
    /\ IF last_op' = "run_round"
       THEN /\ \E needs \in NeedsInputs : C37_OnlyNamed(needs)
            /\ C37_QueuedAsBuyers
       ELSE C37_NeedsKept
    /\ (last_op' = "settled" =>
           LET b == result'.buyer_id
           IN /\ agents'[b].pending_needs = pre_agents'[b].pending_needs
              /\ (total_units(agents'[b].pending_needs) > 0)
                     <=> (total_units(agents[b].pending_needs) > 0))

C37_PendingNeedsOnlyFromNeedsMap == [][C37_Step]_vars

\* round 2 has begun without pairings and an agent that was delivered its
\* whole need in round 1 is queued as a buyer again with the same need
C37_Witness ==
    /\ last_op = "run_round"
    /\ round_num >= 2
    /\ mode = "random"
    /\ \E a \in DOMAIN agents :
          /\ \E i \in 1..Len(queue) : queue[i] = a
          /\ total_units(agents[a].pending_needs) > 0
          /\ can_afford(agents[a].resources, agents[a].pending_needs)
          /\ \E i \in 1..Len(agents[a].deals) :
                /\ agents[a].deals[i].fulfilled
                /\ agents[a].deals[i].resource = agents[a].pending_needs
                /\ agents[a].deals[i].round_num < round_num



(***************************************************************************)
(* C38: in the TrustSimulator, which starts from non-negative holdings,    *)
(* budgets and needs, no agent's budget and no dimension of any agent's    *)
(* resources is ever negative, the cheat paths of the settlement included. *)
(***************************************************************************)
C38_NonNegative(ags) ==
    \A a \in DOMAIN ags :
        /\ RGe(ags[a].budget, RZero)
        /\ \A i \in 1..3 : ags[a].resources[i] >= 0

C38_NeverNegative == C38_NonNegative(agents)



(***************************************************************************)
(* _negotiate, lines 83-157, as a function of the two parties: what the    *)
(* loop returns when it is entered with the given current message, trail   *)
(* and turn count (the agreed flag, the price, and the trail reduced to    *)
(* the type and price of each message).                                    *)
(***************************************************************************)
trail_of(messages) ==
    [i \in 1..Len(messages) |->
        <<messages[i].msg_type, Get(messages[i].payload, "price", RZero)>>]

negotiate_return(agreed, price, messages) ==
    [agreed |-> agreed, price |-> price, trail |-> trail_of(messages)]

RECURSIVE negotiate_loop(_, _, _, _, _, _)
RECURSIVE negotiate_buyer_half(_, _, _, _, _)

\* lines 83-113: the loop head and the seller's half of the body
negotiate_loop(buyer, seller, current_msg, messages, turns, id) ==
    IF ~(turns < max_turns)
    THEN negotiate_return(FALSE, RZero, messages)
    ELSE LET got == receive(seller, current_msg, id)
             response == got.reply
             with_response == Append(messages, response)
         IN IF IsNone(response)
            THEN negotiate_return(FALSE, RZero, messages)
            ELSE IF response.msg_type = "ACCEPT"
            THEN negotiate_return(TRUE, Get(response.payload, "price", RZero),
                                  with_response)
            ELSE IF response.msg_type = "REJECT"
            THEN negotiate_return(FALSE, RZero, with_response)
            ELSE negotiate_buyer_half(buyer, got.agent, with_response, turns,
                                      id + 1)

\* lines 115-146: the buyer's half of the body; the seller's response is the
\* last message of the trail
negotiate_buyer_half(buyer, seller, messages, turns, id) ==
    LET got == receive(buyer, messages[Len(messages)], id)
        buyer_response == got.reply
        with_both == Append(messages, buyer_response)
    IN IF IsNone(buyer_response)
       THEN negotiate_return(FALSE, RZero, messages)
       ELSE IF buyer_response.msg_type = "ACCEPT"
       THEN negotiate_return(TRUE, Get(buyer_response.payload, "price", RZero),
                             with_both)
       ELSE IF buyer_response.msg_type = "REJECT"
       THEN negotiate_return(FALSE, RZero, with_both)
       ELSE negotiate_loop(got.agent, seller, buyer_response, with_both,
                           turns + 1, id + 1)

\* what _negotiate returns, seen from the current state: the function applied
\* to the state while the loop runs, the result once it has returned
negotiate_outcome ==
    IF pc = "seller"
    THEN negotiate_loop(agents[neg.buyer], agents[neg.seller], neg.current_msg,
                        neg.messages, neg.turns, next_id)
    ELSE IF pc = "buyer"
    THEN negotiate_buyer_half(agents[neg.buyer], agents[neg.seller],
                              neg.messages, neg.turns, next_id)
    ELSE negotiate_return(result.agreed, result.price, result.messages)

(***************************************************************************)
(* C39: the course and outcome of a negotiation do not depend on the       *)
(* seller's budget.  When a negotiation between two core strategies has    *)
(* been opened and the seller holds the need, the same negotiation with    *)
(* any other seller budget has the same trail of types and prices, the     *)
(* same agreed flag and the same price.                                    *)
(***************************************************************************)
C39_WithSellerBudget(b) ==
    negotiate_loop(agents[neg.buyer], [agents[neg.seller] EXCEPT !.budget = b],
                   neg.current_msg, neg.messages, neg.turns, next_id)

C39_SellerBudgetIrrelevant ==
    (/\ pc = "seller"
     /\ last_op = "open"
     /\ agents[neg.buyer].strategy.kind \in C34_Core
     /\ agents[neg.seller].strategy.kind \in C34_Core
     /\ can_afford(agents[neg.seller].resources, neg.need)) =>
        \A b \in BudgetChoices : C39_WithSellerBudget(b) = negotiate_outcome

\* the function and the actions agree: every step of a running negotiation
\* keeps the return the function predicts, up to the result the actions build
C39_OutcomeAfterStep ==
    IF pc' = "seller"
    THEN negotiate_loop(agents'[neg'.buyer], agents'[neg'.seller],
                        neg'.current_msg, neg'.messages, neg'.turns, next_id')
    ELSE IF pc' = "buyer"
    THEN negotiate_buyer_half(agents'[neg'.buyer], agents'[neg'.seller],
                              neg'.messages, neg'.turns, next_id')
    ELSE negotiate_return(result'.agreed, result'.price, result'.messages)

C39_FunctionFollowsActions ==
    [][(pc \in {"seller", "buyer"}) => (C39_OutcomeAfterStep = negotiate_outcome)]_vars



(***************************************************************************)
(* C40: negotiation plus settlement for a pair leaves every other agent    *)
(* unchanged.  From the opening of a pair's negotiation to the end of its  *)
(* settlement, every step leaves each agent that is neither the buyer nor  *)
(* the seller of the pair exactly as it was: resources, budget, pending    *)
(* need, reputation table, deal history, message log, and the rest.        *)
(***************************************************************************)
\* the pair being processed after the step
C40_Pair ==
    IF last_op' \in {"open", "raise", "seller", "buyer", "timeout"}
    THEN IF pc' = "error" THEN {} ELSE {neg'.buyer, neg'.seller}
    ELSE {result'.buyer_id, result'.seller_id}

C40_PairStep ==
    last_op' \in {"open", "raise", "seller", "buyer", "timeout", "no_deal",
                  "settled", "defaulted", "cheated"}

C40_OthersUntouched ==
    C40_PairStep =>
        /\ DOMAIN agents' = DOMAIN agents
        /\ \A a \in DOMAIN agents \ C40_Pair : agents'[a] = agents[a]

C40_OtherAgentsUnchanged == [][C40_OthersUntouched]_vars

\* a deal of one pair has just been settled, it changed both parties, and a
\* third agent that holds resources and a deal history of its own is as it
\* was before
C40_Witness ==
    /\ last_op = "settled"
    /\ result.buyer_id # result.seller_id
    /\ agents[result.buyer_id] # pre_agents[result.buyer_id]
    /\ agents[result.seller_id] # pre_agents[result.seller_id]
    /\ \E a \in DOMAIN agents \ {result.buyer_id, result.seller_id} :
          /\ agents[a] = pre_agents[a]
          /\ agents[a].message_log # <<>>


====
